---- MODULE Spec2Model ----
(***************************************************************************)
(* Model of replicest: the replication engine (src/src/replication.rs),    *)
(* the Analysis builder (src/src/analysis.rs), the partition helpers       *)
(* (src/src/helper.rs), the mean kernel (src/src/estimates.rs) and the     *)
(* command loop of the server (src/src/bin/replicest_server.rs).           *)
(*                                                                         *)
(* f64 values are modelled as exact fractions <<n, d>> in lowest terms     *)
(* with d >= 0: <<0, 0>> is NaN and <<1, 0>>, <<-1, 0>> are the            *)
(* infinities.  Rounding and the sign of zero are outside the model.       *)
(* A panic of the code is an outcome of its own (panicked = TRUE), never   *)
(* a returned error value.                                                 *)
(***************************************************************************)
EXTENDS Integers, Sequences, FiniteSets, TLC

\* ------------------------------------------------------------------------
\* Bounds of the model
\* ------------------------------------------------------------------------

\* largest number of imputations of an engine call
MaxImp == 2

\* largest number of data imputations given to for_data
MaxData == 2

\* largest number of grouping matrices given to group_by
MaxGroups == 2

\* largest number of encoded values in a buffer read from the data socket
MaxValues == 3

\* largest number of columns announced for a buffer
MaxColumns == 3

\* largest number of columns of replicated estimates handed to
\* calc_replication_variance
MaxReplicates == 2

\* ------------------------------------------------------------------------
\* f64 arithmetic (exact fractions with NaN and infinities)
\* ------------------------------------------------------------------------

RECURSIVE GCD(_, _)
GCD(a, b) == IF b = 0 THEN a ELSE GCD(b, a % b)

Abs(n) == IF n < 0 THEN -n ELSE n

Sign(n) == IF n < 0 THEN -1 ELSE IF n > 0 THEN 1 ELSE 0

Norm(n, d) ==
    IF d = 0 THEN <<Sign(n), 0>>
    ELSE LET g == GCD(Abs(n), Abs(d))
             s == IF d < 0 THEN -1 ELSE 1
         IN  <<(s * n) \div g, (s * d) \div g>>

R(n) == <<n, 1>>

NaN == <<0, 0>>

IsNaN(a) == a[1] = 0 /\ a[2] = 0

FNeg(a) == <<-a[1], a[2]>>

FAdd(a, b) ==
    IF IsNaN(a) \/ IsNaN(b) THEN NaN
    ELSE IF a[2] = 0 /\ b[2] = 0 THEN (IF a[1] = b[1] THEN a ELSE NaN)
    ELSE IF a[2] = 0 THEN a
    ELSE IF b[2] = 0 THEN b
    ELSE Norm(a[1] * b[2] + b[1] * a[2], a[2] * b[2])

FSub(a, b) == FAdd(a, FNeg(b))

FMul(a, b) == Norm(a[1] * b[1], a[2] * b[2])

FDiv(a, b) == FMul(a, Norm(b[2], b[1]))

\* f64::sqrt: the root of a fraction is kept as its radicand
FSqrt(a) == IF IsNaN(a) \/ a[1] < 0 THEN [sqrt_of |-> NaN] ELSE [sqrt_of |-> a]

\* f64::to_string for whole numbers, NaN, and positive halves and quarters
F64ToString(a) ==
    IF IsNaN(a) THEN "NaN"
    ELSE IF a[2] = 0 THEN (IF a[1] > 0 THEN "inf" ELSE "-inf")
    ELSE IF a[2] = 1 THEN ToString(a[1])
    ELSE IF a[2] = 2 /\ a[1] > 0 THEN ToString(a[1] \div 2) \o ".5"
    ELSE IF a[2] = 4 /\ a[1] > 0
    THEN ToString(a[1] \div 4) \o (IF a[1] % 4 = 1 THEN ".25" ELSE ".75")
    ELSE ToString(a[1]) \o "/" \o ToString(a[2])

\* the comparisons of f64: false whenever a NaN is compared
FLess(a, b) == ~IsNaN(a) /\ ~IsNaN(b) /\ a # b /\ a[1] * b[2] < b[1] * a[2]

FLessEq(a, b) == ~IsNaN(a) /\ ~IsNaN(b) /\ (a = b \/ FLess(a, b))

\* f64::min: the other number when one is NaN
FMin(a, b) == IF IsNaN(a) THEN b ELSE IF IsNaN(b) THEN a
              ELSE IF FLess(b, a) THEN b ELSE a

\* the root of a fraction whose numerator and denominator are squares
Root(a) ==
    <<CHOOSE n \in 0..a[1] : n * n = a[1], CHOOSE d \in 1..a[2] : d * d = a[2]>>

\* left-to-right sum of the first n entries of a vector
RECURSIVE SumTo(_, _)
SumTo(v, n) == IF n = 0 THEN R(0) ELSE FAdd(SumTo(v, n - 1), v[n])

Sum(v) == SumTo(v, Len(v))

\* ------------------------------------------------------------------------
\* Matrices (DMatrix<f64>): the column count and the rows; vectors
\* (DVector<f64>) are sequences
\* ------------------------------------------------------------------------

Mat(nc, rs) == [ncols |-> nc, rows |-> rs]

NRows(m) == Len(m.rows)

Column(m, c) == [r \in 1..NRows(m) |-> m.rows[r][c]]

Zeros(n) == [k \in 1..n |-> R(0)]

\* ------------------------------------------------------------------------
\* helper.rs: group keys and partition by key
\* ------------------------------------------------------------------------

RowKey(row) == [c \in 1..Len(row) |-> F64ToString(row[c])]

get_keys(other) == {RowKey(other.rows[r]) : r \in 1..NRows(other)}

\* IndexVector with the last of the n rows left out
RECURSIVE IndexVector_below(_, _, _)
IndexVector_below(other, key, n) ==
    IF n <= 1 THEN <<>>
    ELSE IF RowKey(other.rows[n - 1]) = key
         THEN Append(IndexVector_below(other, key, n - 1), n - 1)
         ELSE IndexVector_below(other, key, n - 1)

\* the row indices of `other` whose key is `key`, ascending, among 1..n
RECURSIVE IndexVector(_, _, _)
IndexVector(other, key, n) ==
    IF n = 0 THEN <<>>
    ELSE IF RowKey(other.rows[n]) = key
         THEN Append(IndexVector(other, key, n - 1), n)
         ELSE IndexVector(other, key, n - 1)

split_by_panics(nrows, other) == nrows # NRows(other)

\* a partition that fills every bucket from its last row to its first
split_by_reversed(self, other) ==
    [key \in get_keys(other) |->
        LET idx == IndexVector(other, key, NRows(other))
        IN  Mat(self.ncols, [j \in 1..Len(idx) |-> self.rows[idx[Len(idx) + 1 - j]]])]

split_by(self, other) ==
    [key \in get_keys(other) |->
        LET idx == IndexVector(other, key, NRows(other))
        IN  Mat(self.ncols, [j \in 1..Len(idx) |-> self.rows[idx[j]]])]

split_by_vec(self, other) ==
    [key \in get_keys(other) |->
        LET idx == IndexVector(other, key, NRows(other))
        IN  [j \in 1..Len(idx) |-> self[idx[j]]]]

\* ------------------------------------------------------------------------
\* estimates.rs: the mean kernel
\* ------------------------------------------------------------------------

Panicked == [panicked |-> TRUE, parameter_names |-> <<>>, estimates |-> <<>>]

validity_of_data_and_weights(x, wgt) ==
    /\ NRows(x) = Len(wgt)
    /\ \A r \in 1..Len(wgt) : ~IsNaN(wgt[r])

mean(x, wgt) ==
    IF ~validity_of_data_and_weights(x, wgt) THEN Panicked
    ELSE LET clean(e) == IF IsNaN(e) THEN R(0) ELSE e
             ind(e) == IF IsNaN(e) THEN R(0) ELSE R(1)
             weighted_sums(c) ==
                 Sum([r \in 1..NRows(x) |-> FMul(clean(x.rows[r][c]), wgt[r])])
             sum_of_weights(c) ==
                 Sum([r \in 1..NRows(x) |-> FMul(ind(x.rows[r][c]), wgt[r])])
         IN  [panicked |-> FALSE,
              parameter_names |-> [e \in 1..x.ncols |-> "mean_x" \o ToString(e)],
              estimates |-> [c \in 1..x.ncols |->
                                FDiv(weighted_sums(c), sum_of_weights(c))]]

\* concatenation of a sequence of sequences
RECURSIVE Concat(_)
Concat(seqs) ==
    IF Len(seqs) = 0 THEN <<>>
    ELSE Concat(SubSeq(seqs, 1, Len(seqs) - 1)) \o seqs[Len(seqs)]

\* helper.rs: OrderedF64Counts of one column after every row was pushed;
\* NaN keys are skipped, the counts are ordered by key
OrderedF64Count(x, wgt, cc, key) ==
    [key |-> key,
     count_cases |-> Cardinality({r \in 1..NRows(x) : x.rows[r][cc] = key}),
     first_weight |-> wgt[CHOOSE r \in 1..NRows(x) :
                              /\ x.rows[r][cc] = key
                              /\ \A o \in 1..(r - 1) : x.rows[o][cc] # key],
     count_weighted |-> Sum([r \in 1..NRows(x) |->
                                IF x.rows[r][cc] = key THEN wgt[r] ELSE R(0)])]

OrderedF64Counts(x, wgt, cc) ==
    [counts |->
         [v \in 1..Cardinality({x.rows[r][cc] : r \in 1..NRows(x)} \ {NaN}) |->
             OrderedF64Count(x, wgt, cc,
                 CHOOSE key \in {x.rows[r][cc] : r \in 1..NRows(x)} \ {NaN} :
                     Cardinality({o \in {x.rows[r][cc] : r \in 1..NRows(x)} \ {NaN} :
                                     FLess(o, key)}) = v - 1)],
     sum_of_cases |-> Cardinality({r \in 1..NRows(x) : ~IsNaN(x.rows[r][cc])}),
     sum_of_weights |-> Sum([r \in 1..NRows(x) |->
                                IF IsNaN(x.rows[r][cc]) THEN R(0) ELSE wgt[r]])]

weighted_count_values(x, wgt) ==
    [cc \in 1..x.ncols |-> OrderedF64Counts(x, wgt, cc)]

\* the loop of frequencies over the counts of every column
frequencies_loop(counts) ==
    [panicked |-> FALSE,
     parameter_names |->
         Concat([cc \in 1..Len(counts) |->
             Concat([v \in 1..Len(counts[cc].counts) |->
                 [n \in 1..3 |->
                     (IF n = 1 THEN "ncases_x"
                      ELSE IF n = 2 THEN "nweighted_x" ELSE "perc_x")
                         \o ToString(cc) \o "_"
                         \o F64ToString(counts[cc].counts[v].key)]])]),
     estimates |->
         Concat([cc \in 1..Len(counts) |->
             Concat([v \in 1..Len(counts[cc].counts) |->
                 [n \in 1..3 |->
                     IF n = 1 THEN R(counts[cc].counts[v].count_cases)
                     ELSE IF n = 2 THEN counts[cc].counts[v].count_weighted
                     ELSE FDiv(counts[cc].counts[v].count_weighted,
                               counts[cc].sum_of_weights)]])])]

frequencies(x, wgt) ==
    IF ~validity_of_data_and_weights(x, wgt) THEN Panicked
    ELSE frequencies_loop(weighted_count_values(x, wgt))

\* the six parameters missings gives for a set of rows with a missing value
missings_names(suffix) ==
    <<"missingcases_" \o suffix, "missingweights_" \o suffix,
      "percmissing_" \o suffix, "validcases_" \o suffix,
      "validweights_" \o suffix, "percvalid_" \o suffix>>

missings_estimates(nrows, missingcases, missingweights, sum_of_weights) ==
    [n \in 1..6 |->
        IF n = 1 THEN R(missingcases)
        ELSE IF n = 2 THEN missingweights
        ELSE IF n = 4 THEN R(nrows - missingcases)
        ELSE IF n = 5 THEN FSub(sum_of_weights, missingweights)
        ELSE FDiv(IF n = 3 THEN missingweights
                  ELSE FSub(sum_of_weights, missingweights),
                  sum_of_weights)]

\* the rows with a NaN in column cc; column 0 stands for any column
missings_rows(x, cc) ==
    {r \in 1..NRows(x) :
        \E c \in 1..x.ncols : (cc = 0 \/ c = cc) /\ IsNaN(x.rows[r][c])}

missings(x, wgt) ==
    IF ~validity_of_data_and_weights(x, wgt) THEN Panicked
    ELSE [panicked |-> FALSE,
          parameter_names |->
              Concat([cc \in 1..(x.ncols + 1) |->
                  missings_names(IF cc <= x.ncols THEN "x" \o ToString(cc)
                                 ELSE "listwise")]),
          estimates |->
              Concat([cc \in 1..(x.ncols + 1) |->
                  missings_estimates(NRows(x),
                      Cardinality(missings_rows(x, cc % (x.ncols + 1))),
                      Sum([r \in 1..NRows(x) |->
                              IF r \in missings_rows(x, cc % (x.ncols + 1))
                              THEN wgt[r] ELSE R(0)]),
                      Sum(wgt))])]

\* the estimate of quantiles_with_options for the quantile q reached at the
\* value vv of a column.  f64::EPSILON, added to a positive percent_change,
\* is below the precision of the arithmetic here
quantile_estimate_previous(column, vv, old_cumulative_weight, q, quantile_type) ==
    IF vv = 1 \/ quantile_type = "Upper" THEN column.counts[vv].key
    ELSE column.counts[vv - 1].key

quantile_estimate(column, vv, old_cumulative_weight, q, quantile_type) ==
    IF FLessEq(FDiv(FAdd(old_cumulative_weight, column.counts[vv].first_weight),
                    column.sum_of_weights), q)
       \/ vv = 1 \/ quantile_type = "Upper"
    THEN column.counts[vv].key
    ELSE IF quantile_type = "Lower" THEN column.counts[vv - 1].key
    ELSE FAdd(column.counts[vv - 1].key,
              FDiv(FMul(FSub(column.counts[vv].key, column.counts[vv - 1].key),
                        FSub(q, FDiv(old_cumulative_weight, column.sum_of_weights))),
                   FDiv(column.counts[vv].first_weight, column.sum_of_weights)))

\* the inner while loop for the value vv of one column: est the estimates
\* of the column so far, current_quantile the next quantile to place
RECURSIVE quantile_while(_, _, _, _, _, _, _, _)
quantile_while(est, current_quantile, column, vv, old_cumulative_weight, cumulative_percent, ordered_quantiles, quantile_type) ==
    IF ~(/\ current_quantile <= Len(ordered_quantiles)
         /\ FLess(ordered_quantiles[current_quantile], cumulative_percent))
    THEN [est |-> est, current_quantile |-> current_quantile]
    ELSE quantile_while(
             [est EXCEPT ![current_quantile] =
                 quantile_estimate(column, vv, old_cumulative_weight,
                                   ordered_quantiles[current_quantile],
                                   quantile_type)],
             current_quantile + 1, column, vv, old_cumulative_weight,
             cumulative_percent, ordered_quantiles, quantile_type)

\* one iteration of the loop over the values of a column, from the state
\* prev the iterations before it left
quantile_value(prev, column, vv, ordered_quantiles, quantile_type) ==
    IF prev.current_quantile > Len(ordered_quantiles) THEN prev
    ELSE [cumulative_weight |->
              FAdd(prev.cumulative_weight, column.counts[vv].count_weighted)]
         @@ quantile_while(prev.est, prev.current_quantile, column, vv,
                prev.cumulative_weight,
                FDiv(FAdd(prev.cumulative_weight, column.counts[vv].count_weighted),
                     column.sum_of_weights),
                ordered_quantiles, quantile_type)

RECURSIVE quantile_values(_, _, _, _)
quantile_values(column, vv, ordered_quantiles, quantile_type) ==
    IF vv = 0
    THEN [est |-> [k \in 1..Len(ordered_quantiles) |-> NaN],
          current_quantile |-> 1, cumulative_weight |-> R(0)]
    ELSE quantile_value(quantile_values(column, vv - 1, ordered_quantiles,
                                        quantile_type),
                        column, vv, ordered_quantiles, quantile_type)

\* the quantiles left after the last value take the key of
\* counts.last().unwrap(), which panics for a column without a value
quantile_last(looped, column) ==
    [panicked |-> /\ looped.current_quantile <= Len(looped.est)
                  /\ Len(column.counts) = 0,
     est |-> [k \in 1..Len(looped.est) |->
                 IF k < looped.current_quantile THEN looped.est[k]
                 ELSE IF Len(column.counts) = 0 THEN NaN
                 ELSE column.counts[Len(column.counts)].key]]

\* the loop of quantiles_with_options over the columns
quantiles_loop(columns, ordered_quantiles) ==
    IF \E cc \in 1..Len(columns) : columns[cc].panicked THEN Panicked
    ELSE [panicked |-> FALSE,
          parameter_names |->
              Concat([cc \in 1..Len(columns) |->
                  [k \in 1..Len(ordered_quantiles) |->
                      "quantile_x" \o ToString(cc) \o "_"
                          \o F64ToString(ordered_quantiles[k])]]),
          estimates |-> Concat([cc \in 1..Len(columns) |-> columns[cc].est])]

\* quantiles_with_options for quantiles given in ascending order
quantiles_with_options(x, wgt, ordered_quantiles, quantile_type) ==
    IF \/ ~validity_of_data_and_weights(x, wgt)
       \/ Len(ordered_quantiles) = 0
       \/ \E k \in 1..Len(ordered_quantiles) : IsNaN(ordered_quantiles[k])
    THEN Panicked
    ELSE quantiles_loop(
             [cc \in 1..x.ncols |->
                 quantile_last(
                     quantile_values(OrderedF64Counts(x, wgt, cc),
                         Cardinality({x.rows[r][cc] : r \in 1..NRows(x)} \ {NaN}),
                         ordered_quantiles, quantile_type),
                     OrderedF64Counts(x, wgt, cc))],
             ordered_quantiles)

quantiles(x, wgt) ==
    quantiles_with_options(x, wgt, <<<<1, 4>>, <<1, 2>>, <<3, 4>>>>, "Interpolation")

\* correlation_with_options, for up to three columns and finite variances.
\* x_centered: the centered values, NaN where the value or the mean is NaN
x_centered(x, means) ==
    [r \in 1..NRows(x) |-> [c \in 1..x.ncols |-> FSub(x.rows[r][c], means[c])]]

\* the covariance matrix; under pairwise deletion a NaN cell counts as 0
\* and its row has weight 0 in the weight sum of the column
covariance_matrix(centered, wgt, ncols, pairwise_delete) ==
    [i \in 1..ncols |-> [j \in 1..ncols |->
        FDiv(Sum([r \in 1..Len(centered) |->
                    IF pairwise_delete
                       /\ (IsNaN(centered[r][i]) \/ IsNaN(centered[r][j]))
                    THEN R(0)
                    ELSE FMul(centered[r][i], FMul(centered[r][j], wgt[r]))]),
             FSub(FMin(Sum([r \in 1..Len(centered) |->
                              IF pairwise_delete /\ IsNaN(centered[r][i])
                              THEN R(0) ELSE wgt[r]]),
                       Sum([r \in 1..Len(centered) |->
                              IF pairwise_delete /\ IsNaN(centered[r][j])
                              THEN R(0) ELSE wgt[r]])),
                  R(1)))]]

\* the pairs (i, j), i <= j, in the order of the parameter names
correlation_pairs(ncols) ==
    Concat([i \in 1..ncols |-> [k \in 1..(ncols - i + 1) |-> <<i, i + k - 1>>]])

\* the inverse of the diagonal matrix of standard deviations exists unless
\* its determinant is zero, and a NaN standard deviation makes every entry
\* of the inverse NaN
correlation_estimates(covariance, pairs) ==
    IF /\ \A c \in DOMAIN covariance :
              ~IsNaN(covariance[c][c]) /\ covariance[c][c][1] >= 0
       /\ \E c \in DOMAIN covariance : covariance[c][c] = R(0)
    THEN Panicked
    ELSE [panicked |-> FALSE,
          parameter_names |->
              [k \in 1..(2 * Len(pairs)) |->
                  (IF k <= Len(pairs) THEN "covariance" ELSE "correlation")
                      \o "_x" \o ToString(pairs[((k - 1) % Len(pairs)) + 1][1])
                      \o "_x" \o ToString(pairs[((k - 1) % Len(pairs)) + 1][2])],
          estimates |->
              [k \in 1..(2 * Len(pairs)) |->
                  IF k <= Len(pairs) THEN covariance[pairs[k][1]][pairs[k][2]]
                  ELSE IF \E c \in DOMAIN covariance :
                              IsNaN(covariance[c][c]) \/ covariance[c][c][1] < 0
                  THEN NaN
                  ELSE FDiv(covariance[pairs[k - Len(pairs)][1]][pairs[k - Len(pairs)][2]],
                            Root(FMul(covariance[pairs[k - Len(pairs)][1]]
                                                [pairs[k - Len(pairs)][1]],
                                      covariance[pairs[k - Len(pairs)][2]]
                                                [pairs[k - Len(pairs)][2]])))]]

correlation_with_options(x, wgt, pairwise_delete) ==
    IF ~validity_of_data_and_weights(x, wgt) THEN Panicked
    ELSE correlation_estimates(
             covariance_matrix(x_centered(x, mean(x, wgt).estimates), wgt,
                               x.ncols, pairwise_delete),
             correlation_pairs(x.ncols))

correlation(x, wgt) == correlation_with_options(x, wgt, TRUE)

\* the quantile lists and types a closure is bound to here
QuantileLists ==
    {<<<<1, 4>>, <<1, 2>>, <<3, 4>>>>, <<<<3, 4>>, <<1, 4>>>>}

QuantileTypes == {"Lower", "Interpolation", "Upper"}

\* quantiles.sort_by(partial_cmp) of a list of distinct quantiles
sort_quantiles(quantiles0) ==
    [k \in 1..Len(quantiles0) |->
        CHOOSE q \in {quantiles0[j] : j \in 1..Len(quantiles0)} :
            Cardinality({j \in 1..Len(quantiles0) : FLess(quantiles0[j], q)}) = k - 1]

\* quantiles.iter().map(|v| v.to_string()).collect::<Vec<String>>().join(",")
RECURSIVE join_quantiles(_)
join_quantiles(quantiles0) ==
    IF Len(quantiles0) = 0 THEN ""
    ELSE IF Len(quantiles0) = 1 THEN F64ToString(quantiles0[1])
    ELSE join_quantiles(SubSeq(quantiles0, 1, Len(quantiles0) - 1))
             \o "," \o F64ToString(quantiles0[Len(quantiles0)])

\* the closures the builder makes are told apart by what they capture
bind_quantiles(quantiles0, quantile_type) ==
    "quantiles_with_options(" \o join_quantiles(quantiles0) \o ";" \o quantile_type \o ")"

bind_linreg(intercept) ==
    "linreg_with_options(" \o (IF intercept THEN "true" ELSE "false") \o ")"

\* the estimator closure held by a builder or handed to the engine
apply(estimator, x, wgt) ==
    IF estimator = "mean" THEN mean(x, wgt)
    ELSE IF estimator = "frequencies" THEN frequencies(x, wgt)
    ELSE IF estimator = "missings" THEN missings(x, wgt)
    ELSE IF estimator = "quantiles" THEN quantiles(x, wgt)
    ELSE IF estimator = "correlation" THEN correlation(x, wgt)
    ELSE IF \E quantiles0 \in QuantileLists, quantile_type \in QuantileTypes :
                estimator = bind_quantiles(quantiles0, quantile_type)
    THEN quantiles_with_options(
             x, wgt,
             sort_quantiles(
                 CHOOSE quantiles0 \in QuantileLists :
                     \E quantile_type \in QuantileTypes :
                         estimator = bind_quantiles(quantiles0, quantile_type)),
             CHOOSE quantile_type \in QuantileTypes :
                 \E quantiles0 \in QuantileLists :
                     estimator = bind_quantiles(quantiles0, quantile_type))
    ELSE Panicked

\* ------------------------------------------------------------------------
\* replication.rs: the pieces of replicate_estimates
\* ------------------------------------------------------------------------

NoEstimates ==
    [panicked |-> TRUE, parameter_names |-> <<>>, final_estimates |-> <<>>,
     sampling_variances |-> <<>>, imputation_variances |-> <<>>,
     standard_errors |-> <<>>]

\* the head of replicate_estimates with the second assertion left out
length_asserts_weights_only(x, weights, replicate_wgts) ==
    Len(weights) = 1 \/ Len(weights) = Len(x)

\* the two assertions at the head of replicate_estimates
length_asserts(x, weights, replicate_wgts) ==
    /\ (Len(weights) = 1 \/ Len(weights) = Len(x))
    /\ (Len(replicate_wgts) = 1 \/ Len(replicate_wgts) = Len(x))

empty_matrix == Mat(0, <<>>)

\* a binding that takes the weights of the imputation counted from the end
task_weight_mirrored(weights, imputation) ==
    IF Len(weights) > 1 THEN weights[Len(weights) + 1 - imputation] ELSE weights[1]

\* what the loop body binds for one imputation before it spawns the task
task_weight(weights, imputation) ==
    IF Len(weights) > 1 THEN weights[imputation] ELSE weights[1]

task_repweights(replicate_wgts, imputation) ==
    IF Len(replicate_wgts) = 0 THEN empty_matrix
    ELSE IF Len(replicate_wgts) = 1 THEN replicate_wgts[1]
    ELSE replicate_wgts[imputation]

\* calc_replication_variance with the factor left out
calc_replication_variance_unscaled(estimates, replicated_estimates, factor) ==
    [r \in 1..Len(estimates) |->
        Sum([c \in 1..Len(replicated_estimates) |->
                LET v == FSub(replicated_estimates[c][r], estimates[r])
                IN  FMul(v, v)])]

\* replicated_estimates is a list of columns, one per replicate
calc_replication_variance(estimates, replicated_estimates, factor) ==
    [r \in 1..Len(estimates) |->
        FMul(Sum([c \in 1..Len(replicated_estimates) |->
                     LET v == FSub(replicated_estimates[c][r], estimates[r])
                     IN  FMul(v, v)]),
             factor)]

\* the call treating a NaN among its arguments as a failed assertion
calc_replication_variance_call_strict(estimates, replicated_estimates, factor) ==
    IF \E c \in 1..Len(replicated_estimates) :
           \/ Len(replicated_estimates[c]) # Len(estimates)
           \/ \E r \in 1..Len(estimates) : IsNaN(replicated_estimates[c][r])
    THEN [panicked |-> TRUE, variances |-> <<>>]
    ELSE [panicked |-> FALSE,
          variances |-> calc_replication_variance(estimates, replicated_estimates, factor)]

\* a call of calc_replication_variance: the assert_eq on the dimensions,
\* then the vector
calc_replication_variance_call(estimates, replicated_estimates, factor) ==
    IF \E c \in 1..Len(replicated_estimates) :
           Len(replicated_estimates[c]) # Len(estimates)
    THEN [panicked |-> TRUE, variances |-> <<>>]
    ELSE [panicked |-> FALSE,
          variances |-> calc_replication_variance(estimates, replicated_estimates, factor)]

\* calc_standard_errors_from_variances weighting the imputation variance by 1/m
calc_standard_errors_from_variances_no_one(sampling_variances, imputation_variances, n_imp) ==
    [k \in 1..Len(sampling_variances) |->
        FSqrt(FAdd(sampling_variances[k],
                   FMul(imputation_variances[k], FDiv(R(1), R(n_imp)))))]

calc_standard_errors_from_variances(sampling_variances, imputation_variances, n_imp) ==
    [k \in 1..Len(sampling_variances) |->
        FSqrt(FAdd(sampling_variances[k],
                   FMul(imputation_variances[k],
                        FAdd(R(1), FDiv(R(1), R(n_imp))))))]

\* the message of a task that takes a matrix without columns for one zero column
task_message_one_column(estimates_imputation, replicated_estimates, factor) ==
    [parameter_names |-> estimates_imputation.parameter_names,
     estimates |-> estimates_imputation.estimates,
     variances |-> calc_replication_variance(estimates_imputation.estimates,
                       IF Len(replicated_estimates) > 0 THEN replicated_estimates
                       ELSE <<Zeros(Len(estimates_imputation.estimates))>>,
                       factor)]

\* the message a task sends: the point estimates and the sampling variances
\* of its imputation, once every replicate column has been evaluated
task_message(estimates_imputation, replicated_estimates, factor) ==
    [parameter_names |-> estimates_imputation.parameter_names,
     estimates |-> estimates_imputation.estimates,
     variances |-> IF Len(replicated_estimates) > 0
                   THEN calc_replication_variance(estimates_imputation.estimates,
                                                  replicated_estimates, factor)
                   ELSE Zeros(Len(estimates_imputation.estimates))]

\* thread::scope returning as soon as one task has panicked
scope_joined_early(tasks) ==
    \/ \E i \in DOMAIN tasks : tasks[i].pc = "panicked"
    \/ \A i \in DOMAIN tasks : tasks[i].pc = "finished"

\* thread::scope returns once every spawned task has ended
scope_joined(tasks) ==
    \A i \in DOMAIN tasks : tasks[i].pc \in {"finished", "panicked"}

\* the receive loop: state before the first message, and one iteration
collector_init ==
    [panicked |-> FALSE, parameter_names |-> <<>>,
     estimates |-> [nrows |-> 0, cols |-> <<>>],
     sampling_variances |-> <<>>, next_column_estimates |-> 0]

\* the receive loop keeping the sampling variances of the last message only
collector_receive_overwrite(acc, received, m) ==
    LET p == Len(received.estimates)
        estimates0 == IF acc.next_column_estimates = 0
                      THEN [nrows |-> p, cols |-> [c \in 1..m |-> Zeros(p)]]
                      ELSE acc.estimates
    IN  IF acc.panicked \/ p # estimates0.nrows
        THEN [acc EXCEPT !.panicked = TRUE]
        ELSE [panicked |-> FALSE,
              parameter_names |-> received.parameter_names,
              estimates |-> [estimates0 EXCEPT
                                !.cols[acc.next_column_estimates + 1] = received.estimates],
              sampling_variances |-> received.variances,
              next_column_estimates |-> acc.next_column_estimates + 1]

collector_receive(acc, received, m) ==
    LET p == Len(received.estimates)
        estimates0 == IF acc.next_column_estimates = 0
                      THEN [nrows |-> p, cols |-> [c \in 1..m |-> Zeros(p)]]
                      ELSE acc.estimates
        variances0 == IF acc.next_column_estimates = 0
                      THEN Zeros(p)
                      ELSE acc.sampling_variances
    IN  IF acc.panicked \/ p # estimates0.nrows \/ Len(received.variances) # Len(variances0)
        THEN [acc EXCEPT !.panicked = TRUE]
        ELSE [panicked |-> FALSE,
              parameter_names |-> received.parameter_names,
              estimates |-> [estimates0 EXCEPT
                                !.cols[acc.next_column_estimates + 1] = received.estimates],
              sampling_variances |-> [k \in 1..p |->
                                         FAdd(variances0[k], received.variances[k])],
              next_column_estimates |-> acc.next_column_estimates + 1]

\* the combination rules without the test for a single imputation
combine_always_between(acc, m) ==
    IF acc.panicked THEN NoEstimates
    ELSE LET nrows == acc.estimates.nrows
             final_estimates ==
                 [r \in 1..nrows |->
                     FDiv(Sum([c \in 1..m |-> acc.estimates.cols[c][r]]), R(m))]
             sampling_variances ==
                 [k \in 1..Len(acc.sampling_variances) |->
                     FDiv(acc.sampling_variances[k], R(m))]
             imputation_variances ==
                 calc_replication_variance(final_estimates, acc.estimates.cols,
                                           FDiv(R(1), R(m - 1)))
         IN  [panicked |-> FALSE,
              parameter_names |-> acc.parameter_names,
              final_estimates |-> final_estimates,
              sampling_variances |-> sampling_variances,
              imputation_variances |-> imputation_variances,
              standard_errors |->
                  calc_standard_errors_from_variances(sampling_variances,
                                                      imputation_variances, m)]

\* the combination rules after the receive loop
combine(acc, m) ==
    IF acc.panicked THEN NoEstimates
    ELSE LET nrows == acc.estimates.nrows
             final_estimates ==
                 [r \in 1..nrows |->
                     FDiv(Sum([c \in 1..m |-> acc.estimates.cols[c][r]]), R(m))]
             sampling_variances ==
                 [k \in 1..Len(acc.sampling_variances) |->
                     FDiv(acc.sampling_variances[k], R(m))]
             imputation_variances ==
                 IF m > 1
                 THEN calc_replication_variance(final_estimates, acc.estimates.cols,
                                                FDiv(R(1), R(m - 1)))
                 ELSE Zeros(Len(sampling_variances))
         IN  [panicked |-> FALSE,
              parameter_names |-> acc.parameter_names,
              final_estimates |-> final_estimates,
              sampling_variances |-> sampling_variances,
              imputation_variances |-> imputation_variances,
              standard_errors |->
                  calc_standard_errors_from_variances(sampling_variances,
                                                      imputation_variances, m)]

\* one spawned task run from start to end: panicked, or the message it sends
\* estimates_imputation: the estimator on the weights; estimates0[c]: the
\* estimator on column c of the replicate weights
task_outcome(estimates_imputation, estimates0, factor) ==
    IF \/ estimates_imputation.panicked
       \/ \E c \in DOMAIN estimates0 :
              \/ estimates0[c].panicked
              \/ Len(estimates0[c].estimates) # Len(estimates_imputation.estimates)
    THEN [panicked |-> TRUE, message |-> <<>>]
    ELSE [panicked |-> FALSE,
          message |-> task_message(estimates_imputation,
                                   [c \in DOMAIN estimates0 |->
                                       estimates0[c].estimates],
                                   factor)]

task_run(estimator, data, weight, repweights, factor) ==
    task_outcome(apply(estimator, data, weight),
                 [c \in 1..repweights.ncols |->
                     apply(estimator, data, Column(repweights, c))],
                 factor)

RECURSIVE collect(_, _, _, _)
collect(messages, order, n, m) ==
    IF n = 0 THEN collector_init
    ELSE collector_receive(collect(messages, order, n - 1, m), messages[order[n]], m)

\* the end of the thread scope and what the collector and the combination
\* make of the messages of the tasks, arriving in the given order
scope_outcome(spawned, order) ==
    IF \E i \in DOMAIN spawned : spawned[i].panicked THEN NoEstimates
    ELSE combine(collect([i \in DOMAIN spawned |-> spawned[i].message], order,
                         Len(spawned), Len(spawned)),
                 Len(spawned))

\* replicate_estimates as a whole, the messages arriving in the given order
replicate_estimates(estimator, x, weights, replicate_wgts, factor, order) ==
    IF ~length_asserts(x, weights, replicate_wgts) THEN NoEstimates
    ELSE scope_outcome([i \in 1..Len(x) |->
                           task_run(estimator, x[i], task_weight(weights, i),
                                    task_repweights(replicate_wgts, i), factor)],
                       order)

\* the orders in which n messages can arrive
Orders(n) ==
    {s \in [1..n -> 1..n] : \A i, j \in 1..n : i # j => s[i] # s[j]}

\* ------------------------------------------------------------------------
\* errors.rs
\* ------------------------------------------------------------------------

NoError == [type |-> "none", details |-> ""]

MissingElementError(what) ==
    [type |-> "MissingElement",
     details |-> "Analysis is missing some element: " \o what]

InconsistencyError(what) ==
    [type |-> "Inconsistency",
     details |-> "Inconsistency in analysis: " \o what]

\* ------------------------------------------------------------------------
\* analysis.rs: the builder.  An Option is a record: some, and the value
\* ------------------------------------------------------------------------

Some(v) == [some |-> TRUE, value |-> v]

NoneList == [some |-> FALSE, value |-> <<>>]

NoneMatrix == [some |-> FALSE, value |-> Mat(0, <<>>)]

NoneString == [some |-> FALSE, value |-> ""]

analysis ==
    [x |-> NoneList, wgt |-> NoneList, repwgts |-> NoneMatrix,
     variance_adjustment_factor |-> R(1),
     estimate_name |-> NoneString, estimate |-> NoneString,
     groups |-> NoneList, options |-> <<>>]

\* Imputation::Yes(vec) and Imputation::No(mat) as the list that is stored
ImputationYes(vec) == vec

ImputationNo(mat) == <<mat>>

for_data(self, data) == [self EXCEPT !.x = Some(data)]

set_weights(self, wgt) == [self EXCEPT !.wgt = Some(wgt)]

with_replicate_weights(self, replicate_weights) ==
    [self EXCEPT !.repwgts = Some(replicate_weights)]

set_variance_adjustment_factor(self, variance_adjustment_factor) ==
    [self EXCEPT !.variance_adjustment_factor = variance_adjustment_factor]

select_mean(self) ==
    [self EXCEPT !.estimate_name = Some("mean"), !.estimate = Some("mean")]

\* HashMap::insert
insert(options, key, value) ==
    [k \in DOMAIN options \cup {key} |-> IF k = key THEN value ELSE options[k]]

\* linreg() that binds the default whatever was recorded
linreg_default(self) ==
    [self EXCEPT !.estimate_name = Some("linreg"),
                 !.estimate = Some(bind_linreg(TRUE))]

linreg(self) ==
    [self EXCEPT
        !.estimate_name = Some("linreg"),
        !.estimate = Some(bind_linreg(IF "intercept" \in DOMAIN self.options
                                      THEN self.options["intercept"] = "true"
                                      ELSE TRUE))]

with_intercept_recorded(self, intercept) ==
    [self EXCEPT !.options = insert(@, "intercept",
                                    IF intercept THEN "true" ELSE "false")]

with_intercept(self, intercept) ==
    linreg([self EXCEPT !.options = insert(@, "intercept",
                                           IF intercept THEN "true" ELSE "false")])

\* options["quantiles"].split(",").map(|v| v.parse().unwrap()).collect():
\* the list whose values to_string gave the pieces; a piece that is no
\* number, as the one piece of the empty text, makes unwrap panic
parse_quantiles(text) ==
    IF \E quantiles0 \in QuantileLists : join_quantiles(quantiles0) = text
    THEN [panicked |-> FALSE,
          value |-> CHOOSE quantiles0 \in QuantileLists :
                        join_quantiles(quantiles0) = text]
    ELSE [panicked |-> TRUE, value |-> <<>>]

\* impl From<String> for QuantileType
quantile_type_from(text) ==
    IF text \in {"Lower", "Interpolation", "Upper"} THEN text ELSE "Interpolation"

\* the selector quantiles() panics before it assigns the closure
select_quantiles_panics(self) ==
    /\ "quantiles" \in DOMAIN self.options
    /\ parse_quantiles(self.options["quantiles"]).panicked

\* the selector quantiles(); the builder it leaves when it panics has the
\* name set and the closure it had
select_quantiles(self) ==
    [self EXCEPT
        !.estimate_name = Some("quantiles"),
        !.estimate =
            IF select_quantiles_panics(self) THEN @
            ELSE Some(bind_quantiles(
                     IF "quantiles" \in DOMAIN self.options
                     THEN parse_quantiles(self.options["quantiles"]).value
                     ELSE <<<<1, 4>>, <<1, 2>>, <<3, 4>>>>,
                     IF "quantile_type" \in DOMAIN self.options
                     THEN quantile_type_from(self.options["quantile_type"])
                     ELSE "Interpolation"))]

set_quantiles(self, quantiles0) ==
    select_quantiles([self EXCEPT !.options = insert(@, "quantiles",
                                                     join_quantiles(quantiles0))])

set_quantile_type(self, quantile_type) ==
    select_quantiles([self EXCEPT !.options = insert(@, "quantile_type",
                                                     quantile_type)])

group_by(self, data) == [self EXCEPT !.groups = Some(data)]

\* prepare_missing_weights reporting the wrong kind of error
prepare_missing_weights_error_wrong_kind(self) ==
    IF ~self.x.some \/ Len(self.x.value) = 0
    THEN InconsistencyError("data")
    ELSE NoError

\* prepare_missing_weights: the error it returns, and the builder it leaves
prepare_missing_weights_error(self) ==
    IF ~self.x.some \/ Len(self.x.value) = 0
    THEN MissingElementError("data")
    ELSE NoError

\* prepare_missing_weights sizing the defaults by the number of imputations
prepare_missing_weights_per_imputation(self) ==
    IF prepare_missing_weights_error(self).type # "none" THEN self
    ELSE LET ncases == Len(self.x.value)
         IN  [self EXCEPT
                 !.wgt = IF self.wgt.some THEN self.wgt
                         ELSE Some([r \in 1..ncases |-> R(1)]),
                 !.repwgts = IF self.repwgts.some THEN self.repwgts
                             ELSE Some(Mat(0, [r \in 1..ncases |-> <<>>]))]

prepare_missing_weights(self) ==
    IF prepare_missing_weights_error(self).type # "none" THEN self
    ELSE LET ncases == NRows(self.x.value[1])
         IN  [self EXCEPT
                 !.wgt = IF self.wgt.some THEN self.wgt
                         ELSE Some([r \in 1..ncases |-> R(1)]),
                 !.repwgts = IF self.repwgts.some THEN self.repwgts
                             ELSE Some(Mat(0, [r \in 1..ncases |-> <<>>]))]

\* what a prepare_for_calculate_* returns: an error, a panic, or the keys
\* and the three maps from key to the list of per-imputation pieces
Prepared(keys, x_split, wgt_split, repwgt_split) ==
    [kind |-> "ok", error |-> NoError, keys |-> keys, x_split |-> x_split,
     wgt_split |-> wgt_split, repwgt_split |-> repwgt_split]

PrepareFailed(kind, error) ==
    [kind |-> kind, error |-> error, keys |-> {}, x_split |-> <<>>,
     wgt_split |-> <<>>, repwgt_split |-> <<>>]

Overall == <<"overall">>

\* prepare_for_calculate_overall handing on the first imputation only
prepare_for_calculate_overall_first(self) ==
    LET x == self.x.value
        ncases == NRows(x[1])
    IN  IF ncases # Len(self.wgt.value)
        THEN PrepareFailed("err",
                 InconsistencyError("unequal number of rows for data and weights"))
        ELSE IF ncases # NRows(self.repwgts.value)
        THEN PrepareFailed("err",
                 InconsistencyError("unequal number of rows for data and replicate weights"))
        ELSE Prepared({Overall},
                      [key \in {Overall} |-> <<x[1]>>],
                      [key \in {Overall} |-> <<self.wgt.value>>],
                      [key \in {Overall} |-> <<self.repwgts.value>>])

prepare_for_calculate_overall(self) ==
    LET x == self.x.value
        ncases == NRows(x[1])
    IN  IF ncases # Len(self.wgt.value)
        THEN PrepareFailed("err",
                 InconsistencyError("unequal number of rows for data and weights"))
        ELSE IF ncases # NRows(self.repwgts.value)
        THEN PrepareFailed("err",
                 InconsistencyError("unequal number of rows for data and replicate weights"))
        ELSE Prepared({Overall},
                      [key \in {Overall} |-> x],
                      [key \in {Overall} |-> <<self.wgt.value>>],
                      [key \in {Overall} |-> <<self.repwgts.value>>])

\* insertion of one imputation's split into a map of lists: the first
\* imputation inserts, the later ones push onto the entry they expect
insert_first(split) == [key \in DOMAIN split |-> <<split[key]>>]

push_panics(map, split) == \E key \in DOMAIN split : key \notin DOMAIN map

push_next(map, split) ==
    [key \in DOMAIN map |->
        IF key \in DOMAIN split THEN Append(map[key], split[key]) ELSE map[key]]

\* the loop over the data imputations, after imputations 1..i
RECURSIVE group_by_x_loop(_, _)
group_by_x_loop(self, i) ==
    IF i = 0 THEN [panicked |-> FALSE, map |-> <<>>]
    ELSE LET prev == group_by_x_loop(self, i - 1)
             groups == self.groups.value
             other == IF Len(groups) > 1 THEN groups[i] ELSE groups[1]
             mat == self.x.value[i]
         IN  IF prev.panicked \/ split_by_panics(NRows(mat), other)
             THEN [panicked |-> TRUE, map |-> <<>>]
             ELSE IF i = 1
             THEN [panicked |-> FALSE, map |-> insert_first(split_by(mat, other))]
             ELSE IF push_panics(prev.map, split_by(mat, other))
             THEN [panicked |-> TRUE, map |-> <<>>]
             ELSE [panicked |-> FALSE, map |-> push_next(prev.map, split_by(mat, other))]

\* the loop over the grouping matrices, after matrices 1..i
RECURSIVE group_by_wgt_loop(_, _)
group_by_wgt_loop(self, i) ==
    IF i = 0 THEN [panicked |-> FALSE, wgt |-> <<>>, repwgt |-> <<>>]
    ELSE LET prev == group_by_wgt_loop(self, i - 1)
             groups0 == self.groups.value[i]
             wgt == self.wgt.value
             repwgts == self.repwgts.value
         IN  IF \/ prev.panicked
                \/ split_by_panics(Len(wgt), groups0)
                \/ split_by_panics(NRows(repwgts), groups0)
             THEN [panicked |-> TRUE, wgt |-> <<>>, repwgt |-> <<>>]
             ELSE IF i = 1
             THEN [panicked |-> FALSE,
                   wgt |-> insert_first(split_by_vec(wgt, groups0)),
                   repwgt |-> insert_first(split_by(repwgts, groups0))]
             ELSE IF push_panics(prev.wgt, split_by_vec(wgt, groups0))
             THEN [panicked |-> TRUE, wgt |-> <<>>, repwgt |-> <<>>]
             ELSE [panicked |-> FALSE,
                   wgt |-> push_next(prev.wgt, split_by_vec(wgt, groups0)),
                   repwgt |-> push_next(prev.repwgt, split_by(repwgts, groups0))]

\* prepare_for_calculate_group_by demanding equal counts of a single grouping too
prepare_for_calculate_group_by_strict(self) ==
    LET groups == self.groups.value
        x == self.x.value
    IN  IF Len(groups) # Len(x)
        THEN PrepareFailed("err",
                 InconsistencyError("number of data sets does not match number of sets with grouping columns"))
        ELSE LET xs == group_by_x_loop(self, Len(x))
                 ws == group_by_wgt_loop(self, Len(groups))
             IN  IF xs.panicked \/ ws.panicked
                 THEN PrepareFailed("panic", NoError)
                 ELSE Prepared(get_keys(groups[1]), xs.map, ws.wgt, ws.repwgt)

prepare_for_calculate_group_by(self) ==
    LET groups == self.groups.value
        x == self.x.value
    IN  IF Len(groups) > 1 /\ Len(groups) # Len(x)
        THEN PrepareFailed("err",
                 InconsistencyError("number of data sets does not match number of sets with grouping columns"))
        ELSE LET xs == group_by_x_loop(self, Len(x))
                 ws == group_by_wgt_loop(self, Len(groups))
             IN  IF xs.panicked \/ ws.panicked
                 THEN PrepareFailed("panic", NoError)
                 ELSE Prepared(get_keys(groups[1]), xs.map, ws.wgt, ws.repwgt)

\* what calculate() hands back: a result map, a returned error, or a panic;
\* invoked is the set of keys the engine was called for
Calculated(kind, error, results, invoked) ==
    [kind |-> kind, error |-> error, results |-> results, invoked |-> invoked]

\* the keys visited by the loop over the HashSet when it visits them in
\* the order korder and stops at the first key of the set `stopping`
RECURSIVE visited(_, _, _)
visited(korder, stopping, n) ==
    IF n = 0 THEN {}
    ELSE IF \E j \in 1..(n - 1) : korder[j] \in stopping
         THEN visited(korder, stopping, n - 1)
         ELSE visited(korder, stopping, n - 1) \cup {korder[n]}

\* the dispatch on self.groups and the loop over the keys; orders[n] is the
\* order in which the messages of an engine call with n imputations arrive,
\* korder the order in which the loop visits the keys
calculate_dispatch(self) ==
    IF self.groups.some /\ Len(self.groups.value) > 0
    THEN prepare_for_calculate_group_by(self)
    ELSE prepare_for_calculate_overall(self)

\* the keys of a prepared split with an entry in each of the three maps
calculate_present(prepared) ==
    IF prepared.kind # "ok" THEN {}
    ELSE prepared.keys \cap DOMAIN prepared.x_split
             \cap DOMAIN prepared.wgt_split \cap DOMAIN prepared.repwgt_split

\* the engine call of the loop for every key it can be made for
calculate_results(self, prepared, orders) ==
    [key \in calculate_present(prepared) |->
        replicate_estimates(self.estimate.value,
                            prepared.x_split[key],
                            prepared.wgt_split[key],
                            prepared.repwgt_split[key],
                            self.variance_adjustment_factor,
                            orders[Len(prepared.x_split[key])])]

calculate_loop(prepared, results, korder) ==
    IF prepared.kind # "ok"
    THEN Calculated(prepared.kind, prepared.error, <<>>, {})
    ELSE IF \E key \in prepared.keys :
                key \notin DOMAIN results \/ results[key].panicked
    THEN Calculated("panic", NoError, <<>>,
                    visited(korder,
                            {key \in prepared.keys :
                                key \notin DOMAIN results \/ results[key].panicked},
                            Len(korder)) \cap DOMAIN results)
    ELSE Calculated("ok", NoError, results, prepared.keys)

calculate_prepared(self, orders, korder) ==
    calculate_loop(calculate_dispatch(self),
                   calculate_results(self, calculate_dispatch(self), orders),
                   korder)

\* calculate() with the two presence checks in the other order
calculate_outcome_data_first(self, orders, korder) ==
    IF prepare_missing_weights_error(self).type # "none"
    THEN Calculated("err", prepare_missing_weights_error(self), <<>>, {})
    ELSE IF ~self.estimate.some
    THEN Calculated("err", MissingElementError("estimate"), <<>>, {})
    ELSE calculate_prepared(prepare_missing_weights(self), orders, korder)

calculate_outcome(self, orders, korder) ==
    IF ~self.estimate.some
    THEN Calculated("err", MissingElementError("estimate"), <<>>, {})
    ELSE IF prepare_missing_weights_error(self).type # "none"
    THEN Calculated("err", prepare_missing_weights_error(self), <<>>, {})
    ELSE calculate_prepared(prepare_missing_weights(self), orders, korder)

\* a calculate() that fills the defaults into a builder of its own and
\* leaves the one it was called on as it was
calculate_self_untouched(self) == self

\* the builder after calculate(): only prepare_missing_weights writes to it
calculate_self(self) ==
    IF ~self.estimate.some THEN self ELSE prepare_missing_weights(self)

\* the keys calculate() loops over, when it gets that far
calculate_keys(self) ==
    IF ~self.estimate.some \/ prepare_missing_weights_error(self).type # "none"
    THEN {}
    ELSE IF self.groups.some /\ Len(self.groups.value) > 0
    THEN prepare_for_calculate_group_by(prepare_missing_weights(self)).keys
    ELSE {Overall}

\* ------------------------------------------------------------------------
\* bin/replicest_server.rs: the handlers.  A message sent to the client is
\* a text or the serialized result map
\* ------------------------------------------------------------------------

Text(text) == [text |-> text, data |-> <<>>]

\* external.rs: the serialization-ready copy of one ReplicatedEstimates
from_internal(internal_struct) ==
    [parameter_names |-> internal_struct.parameter_names,
     final_estimates |-> internal_struct.final_estimates,
     sampling_variances |-> internal_struct.sampling_variances,
     imputation_variances |-> internal_struct.imputation_variances,
     standard_errors |-> internal_struct.standard_errors]

\* rmp_serde::to_vec of the result map: the map, entry by entry
Serialized(result_data) ==
    [text |-> "",
     data |-> [msgpack |-> [key \in DOMAIN result_data |->
                               from_internal(result_data[key])]]]

\* a handler ends with the messages to send, or the server thread panics
Handled(self, responses) == [analysis |-> self, panicked |-> FALSE, responses |-> responses]

HandlerPanicked(self) == [analysis |-> self, panicked |-> TRUE, responses |-> <<>>]

handle_calculate_result_payload_first(self, result) ==
    IF result.kind = "panic" THEN HandlerPanicked(self)
    ELSE IF result.kind = "ok"
    THEN Handled(self, <<Serialized(result.results), Text("calculation complete")>>)
    ELSE Handled(self, <<Text("error calculating: " \o result.error.details)>>)

\* the match on the result of calculate()
handle_calculate_result(self, result) ==
    IF result.kind = "panic" THEN HandlerPanicked(self)
    ELSE IF result.kind = "ok"
    THEN Handled(self, <<Text("calculation complete"), Serialized(result.results)>>)
    ELSE Handled(self, <<Text("error calculating: " \o result.error.details)>>)

handle_calculate_message(self, orders, korder) ==
    handle_calculate_result(calculate_self(self),
                            calculate_outcome(self, orders, korder))

\* handle_input_message once the payloads have been read: one imputation is
\* handed over as Imputation::No, any other number as Imputation::Yes
received_input(input) ==
    IF Len(input) = 1 THEN ImputationNo(input[1]) ELSE ImputationYes(input)

\* ------------------------------------------------------------------------
\* Inputs of the model
\* ------------------------------------------------------------------------

Col1(values) == Mat(1, [r \in 1..Len(values) |-> <<values[r]>>])

DataPool ==
    {Col1(<<R(1), R(3)>>), Col1(<<R(2), R(6)>>), Col1(<<R(1), R(2), R(3)>>)}

WeightPool == {<<R(1), R(2)>>, <<R(1), NaN>>}

RepWeightPool == {Mat(2, <<<<R(2), R(1)>>, <<R(1), R(2)>>>>)}

GroupPool == {Col1(<<R(1), R(1)>>), Col1(<<R(1), R(2)>>)}

FactorPool == {R(1), <<1, 2>>}

Lists(pool, n) == UNION {[1..k -> pool] : k \in 0..n}

\* every order of arrival for every engine call of a calculate() whose
\* calls have the numbers of imputations in `counts`
ArrivalOrders(counts) ==
    {orders \in [counts -> UNION {Orders(k) : k \in counts}] :
        \A k \in counts : orders[k] \in Orders(k)}

\* the numbers of imputations of the engine calls calculate() makes
calculate_imputations(self) ==
    IF ~self.estimate.some \/ prepare_missing_weights_error(self).type # "none"
    THEN {}
    ELSE LET filled == prepare_missing_weights(self)
             prepared == IF self.groups.some /\ Len(self.groups.value) > 0
                         THEN prepare_for_calculate_group_by(filled)
                         ELSE prepare_for_calculate_overall(filled)
         IN  IF prepared.kind # "ok" THEN {}
             ELSE {Len(prepared.x_split[key]) :
                      key \in prepared.keys \cap DOMAIN prepared.x_split}

\* every order in which a loop can visit the keys of a set
KeyOrders(keys) ==
    {s \in [1..Cardinality(keys) -> keys] :
        \A i, j \in 1..Cardinality(keys) : i # j => s[i] # s[j]}

\* ------------------------------------------------------------------------
\* State
\* ------------------------------------------------------------------------

VARIABLES
    analysis1,   \* a builder (Analysis) of a client program
    returned     \* what the last call on the builder returned to the client

\* one call of replicate_estimates
VARIABLES
    estimator, x, weights, replicate_wgts, factor,   \* its arguments
    main_pc,        \* where the calling thread is
    tasks,          \* the spawned tasks, one per imputation spawned so far
    channel,        \* the messages sent and not yet received
    collector,      \* the locals of the receive loop
    result,         \* the ReplicatedEstimates returned
    evaluated,      \* history: the estimator evaluations made so far
    sent_order      \* history: the tasks in the order of their sends

\* the server process
VARIABLES
    current_analysis,   \* the builder the server keeps between commands
    server_pc,          \* serving, ended (left the loop) or panicked
    message,            \* the command received last
    replies,            \* the messages sent to the client in reply to it
    data_socket         \* the stream connections made and not yet accepted

\* a client program with several builders
VARIABLES
    analyses,   \* the builders, their four input slots holding Rc pointers
    rcs         \* the Rc allocations: strong count and value of each

builderVars == <<analysis1, returned>>

copyVars == <<analyses, rcs>>

serverVars == <<current_analysis, server_pc, message, replies, data_socket>>

engineVars == <<estimator, x, weights, replicate_wgts, factor, main_pc, tasks,
                channel, collector, result, evaluated, sent_order>>

vars == <<builderVars, engineVars, serverVars, copyVars>>

\* no program with several builders is being looked at
CopyIdle == analyses = <<>> /\ rcs = <<>>

\* no engine call is being looked at
EngineIdle ==
    /\ estimator = "mean" /\ x = <<>> /\ weights = <<>> /\ replicate_wgts = <<>>
    /\ factor = R(1) /\ main_pc = "idle" /\ tasks = <<>> /\ channel = <<>>
    /\ collector = collector_init /\ result = NoEstimates
    /\ evaluated = {} /\ sent_order = <<>>

\* no server is being looked at
ServerIdle ==
    /\ current_analysis = analysis /\ server_pc = "idle"
    /\ message = "" /\ replies = <<>> /\ data_socket = <<>>

\* a setter returns the builder itself: no outcome to look at
NoCall == Calculated("none", NoError, <<>>, {})

\* a panic of calculate() ends the client program
Aborted == returned.kind = "panic"

\* ------------------------------------------------------------------------
\* Spec: a client program that drives one builder
\* ------------------------------------------------------------------------

Init ==
    /\ CopyIdle
    /\ analysis1 = analysis
    /\ returned = NoCall
    /\ EngineIdle
    /\ ServerIdle

ForData ==
    /\ ~Aborted
    /\ \E data \in Lists(DataPool, MaxData) :
           analysis1' = for_data(analysis1, ImputationYes(data))
    /\ returned' = NoCall
    /\ UNCHANGED <<engineVars, serverVars, copyVars>>

ForDataNo ==
    /\ ~Aborted
    /\ \E mat \in DataPool : analysis1' = for_data(analysis1, ImputationNo(mat))
    /\ returned' = NoCall
    /\ UNCHANGED <<engineVars, serverVars, copyVars>>

SetWeights ==
    /\ ~Aborted
    /\ \E wgt \in WeightPool : analysis1' = set_weights(analysis1, wgt)
    /\ returned' = NoCall
    /\ UNCHANGED <<engineVars, serverVars, copyVars>>

WithReplicateWeights ==
    /\ ~Aborted
    /\ \E replicate_weights \in RepWeightPool :
           analysis1' = with_replicate_weights(analysis1, replicate_weights)
    /\ returned' = NoCall
    /\ UNCHANGED <<engineVars, serverVars, copyVars>>

SetVarianceAdjustmentFactor ==
    /\ ~Aborted
    /\ \E variance_adjustment_factor \in FactorPool :
           analysis1' = set_variance_adjustment_factor(analysis1,
                                                       variance_adjustment_factor)
    /\ returned' = NoCall
    /\ UNCHANGED <<engineVars, serverVars, copyVars>>

SelectMean ==
    /\ ~Aborted
    /\ analysis1' = select_mean(analysis1)
    /\ returned' = NoCall
    /\ UNCHANGED <<engineVars, serverVars, copyVars>>

GroupBy ==
    /\ ~Aborted
    /\ \E data \in Lists(GroupPool, MaxGroups) :
           analysis1' = group_by(analysis1, ImputationYes(data))
    /\ returned' = NoCall
    /\ UNCHANGED <<engineVars, serverVars, copyVars>>

GroupByNo ==
    /\ ~Aborted
    /\ \E mat \in GroupPool : analysis1' = group_by(analysis1, ImputationNo(mat))
    /\ returned' = NoCall
    /\ UNCHANGED <<engineVars, serverVars, copyVars>>

Calculate ==
    /\ ~Aborted
    /\ \E orders \in ArrivalOrders(calculate_imputations(analysis1)),
          korder \in KeyOrders(calculate_keys(analysis1)) :
           returned' = calculate_outcome(analysis1, orders, korder)
    /\ analysis1' = calculate_self(analysis1)
    /\ UNCHANGED <<engineVars, serverVars, copyVars>>

Next ==
    \/ ForData
    \/ ForDataNo
    \/ SetWeights
    \/ WithReplicateWeights
    \/ SetVarianceAdjustmentFactor
    \/ SelectMean
    \/ GroupBy
    \/ GroupByNo
    \/ Calculate

Spec == Init /\ [][Next]_vars

\* ------------------------------------------------------------------------
\* SpecEngine: one call of replicate_estimates, the calling thread and the
\* spawned tasks taking their steps in any interleaving
\* ------------------------------------------------------------------------

\* the data, weights and replicate weights of one imputation
Bundle(data, wgt, repwgts) == [x |-> data, wgt |-> wgt, repwgts |-> repwgts]

BundlePool ==
    {Bundle(Col1(<<R(1), R(3)>>), <<R(1), R(2)>>,
            Mat(2, <<<<R(2), R(1)>>, <<R(1), R(2)>>>>)),
     Bundle(Col1(<<R(2), R(6)>>), <<R(2), R(1)>>, Col1(<<R(1), R(3)>>)),
     Bundle(Col1(<<R(3), R(1)>>), <<R(1), NaN>>, Col1(<<R(1), NaN>>))}

SharedWeights == <<R(1), R(1)>>

SharedRepWeightPool == {Mat(0, <<<<>>, <<>>>>), Col1(<<R(1), R(2)>>)}

NotEvaluated == [panicked |-> FALSE, parameter_names |-> <<>>, estimates |-> <<>>]

EngineInit ==
    /\ CopyIdle
    /\ analysis1 = analysis
    /\ returned = NoCall
    /\ ServerIdle
    /\ estimator = "mean"
    /\ \E m \in 0..MaxImp :
           \E b \in [1..m -> BundlePool], nw \in 0..(m + 1), nr \in 0..(m + 1),
              shared \in SharedRepWeightPool :
               /\ x = [i \in 1..m |-> b[i].x]
               /\ weights = IF nw = m THEN [i \in 1..m |-> b[i].wgt]
                            ELSE [j \in 1..nw |-> SharedWeights]
               /\ replicate_wgts = IF nr = m THEN [i \in 1..m |-> b[i].repwgts]
                                   ELSE [j \in 1..nr |-> shared]
    /\ factor \in FactorPool
    /\ main_pc = "start"
    /\ tasks = <<>>
    /\ channel = <<>>
    /\ collector = collector_init
    /\ result = NoEstimates
    /\ evaluated = {}
    /\ sent_order = <<>>

engineInputs == <<estimator, x, weights, replicate_wgts, factor>>

\* the two assertions
EngineAssert ==
    /\ main_pc = "start"
    /\ main_pc' = IF length_asserts(x, weights, replicate_wgts)
                  THEN "spawn" ELSE "panicked"
    /\ UNCHANGED <<copyVars, builderVars, serverVars, engineInputs, tasks, channel, collector, result,
                   evaluated, sent_order>>

\* one iteration of the loop inside thread::scope: bind and spawn
EngineSpawn ==
    /\ main_pc = "spawn"
    /\ Len(tasks) < Len(x)
    /\ LET imputation == Len(tasks) + 1
       IN  tasks' = Append(tasks,
               [pc |-> "estimate",
                data |-> x[imputation],
                weight |-> task_weight(weights, imputation),
                repweights |-> task_repweights(replicate_wgts, imputation),
                estimates_imputation |-> NotEvaluated,
                replicated_estimates |-> <<>>])
    /\ UNCHANGED <<copyVars, builderVars, serverVars, engineInputs, main_pc, channel, collector, result,
                   evaluated, sent_order>>

\* the end of thread::scope: join, then resume a panic or go on
EngineScope ==
    /\ main_pc = "spawn"
    /\ Len(tasks) = Len(x)
    /\ scope_joined(tasks)
    /\ main_pc' = IF \E i \in DOMAIN tasks : tasks[i].pc = "panicked"
                  THEN "panicked" ELSE "receive"
    /\ UNCHANGED <<copyVars, builderVars, serverVars, engineInputs, tasks, channel, collector, result,
                   evaluated, sent_order>>

\* a task evaluates the estimator under the weights
TaskEstimate(i) ==
    /\ tasks[i].pc = "estimate"
    /\ LET t == tasks[i]
           estimates_imputation == apply(estimator, t.data, t.weight)
       IN  /\ tasks' = [tasks EXCEPT
                   ![i].estimates_imputation = estimates_imputation,
                   ![i].pc = IF estimates_imputation.panicked THEN "panicked"
                             ELSE IF t.repweights.ncols > 0 THEN "replicate"
                             ELSE "send"]
           /\ evaluated' = evaluated \cup
                  {[imputation |-> i, x |-> t.data, wgt |-> t.weight]}
    /\ UNCHANGED <<copyVars, builderVars, serverVars, engineInputs, main_pc, channel, collector, result,
                   sent_order>>

\* a task evaluates the estimator under its next replicate column
TaskReplicate(i) ==
    /\ tasks[i].pc = "replicate"
    /\ LET t == tasks[i]
           c == Len(t.replicated_estimates) + 1
           wgt == Column(t.repweights, c)
           estimates0 == apply(estimator, t.data, wgt)
           fails == \/ estimates0.panicked
                    \/ Len(estimates0.estimates) # Len(t.estimates_imputation.estimates)
       IN  /\ tasks' = [tasks EXCEPT
                   ![i].replicated_estimates =
                       IF fails THEN @ ELSE Append(@, estimates0.estimates),
                   ![i].pc = IF fails THEN "panicked"
                             ELSE IF c = t.repweights.ncols THEN "send"
                             ELSE "replicate"]
           /\ evaluated' = evaluated \cup
                  {[imputation |-> i, x |-> t.data, wgt |-> wgt]}
    /\ UNCHANGED <<copyVars, builderVars, serverVars, engineInputs, main_pc, channel, collector, result,
                   sent_order>>

\* a task computes its sampling variances and sends its message
TaskSend(i) ==
    /\ tasks[i].pc = "send"
    /\ channel' = Append(channel,
           task_message(tasks[i].estimates_imputation,
                        tasks[i].replicated_estimates, factor))
    /\ tasks' = [tasks EXCEPT ![i].pc = "finished"]
    /\ sent_order' = Append(sent_order, i)
    /\ UNCHANGED <<copyVars, builderVars, serverVars, engineInputs, main_pc, collector, result, evaluated>>

\* one iteration of the receive loop
EngineReceive ==
    /\ main_pc = "receive"
    /\ channel # <<>>
    /\ collector' = collector_receive(collector, Head(channel), Len(x))
    /\ channel' = Tail(channel)
    /\ main_pc' = IF collector'.panicked THEN "panicked" ELSE "receive"
    /\ UNCHANGED <<copyVars, builderVars, serverVars, engineInputs, tasks, result, evaluated, sent_order>>

\* the channel is drained and closed: combine and return
EngineReturn ==
    /\ main_pc = "receive"
    /\ channel = <<>>
    /\ result' = combine(collector, Len(x))
    /\ main_pc' = "returned"
    /\ UNCHANGED <<copyVars, builderVars, serverVars, engineInputs, tasks, channel, collector, evaluated,
                   sent_order>>

EngineNext ==
    \/ EngineAssert
    \/ EngineSpawn
    \/ EngineScope
    \/ \E i \in DOMAIN tasks : TaskEstimate(i)
    \/ \E i \in DOMAIN tasks : TaskReplicate(i)
    \/ \E i \in DOMAIN tasks : TaskSend(i)
    \/ EngineReceive
    \/ EngineReturn

SpecEngine == EngineInit /\ [][EngineNext]_vars

\* ------------------------------------------------------------------------
\* SpecServer: the command loop of the server; one step per command
\* received, the handler and the sending of its replies included
\* ------------------------------------------------------------------------

ServerInit ==
    /\ CopyIdle
    /\ analysis1 = analysis
    /\ returned = NoCall
    /\ EngineIdle
    /\ current_analysis = analysis
    /\ server_pc = "serving"
    /\ message = ""
    /\ replies = <<>>
    /\ data_socket = <<>>

\* the loop goes on with the handler's builder after sending its replies
Served(text, handled) ==
    /\ message' = text
    /\ current_analysis' = handled.analysis
    /\ replies' = handled.responses
    /\ server_pc' = IF handled.panicked THEN "panicked" ELSE "serving"
    /\ UNCHANGED <<copyVars, builderVars, engineVars, data_socket>>

ServeShutdown ==
    /\ server_pc = "serving"
    /\ message' = "shutdown"
    /\ replies' = <<Text("shutting down")>>
    /\ server_pc' = "ended"
    /\ UNCHANGED <<copyVars, builderVars, engineVars, current_analysis, data_socket>>

ServeClear_keeping_options ==
    /\ server_pc = "serving"
    /\ Served("clear",
              Handled([analysis EXCEPT !.options = current_analysis.options],
                      <<Text("cleared")>>))

ServeClear ==
    /\ server_pc = "serving"
    /\ Served("clear", Handled(analysis, <<Text("cleared")>>))

ServeData ==
    /\ server_pc = "serving"
    /\ \E input \in Lists(DataPool, MaxData) :
           Served("data",
                  Handled(for_data(current_analysis, received_input(input)),
                          <<Text("received data")>>))

ServeGroups ==
    /\ server_pc = "serving"
    /\ \E input \in Lists(GroupPool, MaxGroups) :
           Served("groups",
                  Handled(group_by(current_analysis, received_input(input)),
                          <<Text("received groups")>>))

ServeWeights ==
    /\ server_pc = "serving"
    /\ \E weight_vector \in WeightPool :
           Served("weights",
                  Handled(set_weights(current_analysis, weight_vector),
                          <<Text("received weights")>>))

ServeReplicateWeights ==
    /\ server_pc = "serving"
    /\ \E replicate_weights \in RepWeightPool :
           Served("replicate weights",
                  Handled(with_replicate_weights(current_analysis, replicate_weights),
                          <<Text("received replicate weights")>>))

ServeSetVarianceAdjustmentFactor ==
    /\ server_pc = "serving"
    /\ \E f \in FactorPool :
           Served("set variance adjustment factor",
                  Handled(set_variance_adjustment_factor(current_analysis, f),
                          <<Text("set variance adjustment factor")>>))

ServeEstimate ==
    /\ server_pc = "serving"
    /\ Served("mean",
              Handled(select_mean(current_analysis),
                      <<Text("set analysis to " \o "mean")>>))

ServeCalculate ==
    /\ server_pc = "serving"
    /\ \E orders \in ArrivalOrders(calculate_imputations(current_analysis)),
          korder \in KeyOrders(calculate_keys(current_analysis)) :
           Served("calculate", handle_calculate_message(current_analysis, orders, korder))

ServeUnknown ==
    /\ server_pc = "serving"
    /\ Served("unknown command", Handled(current_analysis, <<Text("unknown")>>))

ServerNext ==
    \/ ServeShutdown
    \/ ServeClear
    \/ ServeData
    \/ ServeGroups
    \/ ServeWeights
    \/ ServeReplicateWeights
    \/ ServeSetVarianceAdjustmentFactor
    \/ ServeEstimate
    \/ ServeCalculate
    \/ ServeUnknown

SpecServer == ServerInit /\ [][ServerNext]_vars

\* ------------------------------------------------------------------------
\* SpecExchange: the command loop of the server with a client that sends
\* equally long imputations and grouping columns, so that most calculate
\* commands of the exchange succeed
\* ------------------------------------------------------------------------

\* what the client sends as data: nothing, one imputation, two imputations
ExchangeInputs ==
    {<<>>, <<Col1(<<R(1), R(3)>>)>>, <<Col1(<<R(1), R(3)>>), Col1(<<R(2), R(6)>>)>>}

ExchangeData ==
    /\ server_pc = "serving"
    /\ \E input \in ExchangeInputs :
           Served("data",
                  Handled(for_data(current_analysis, received_input(input)),
                          <<Text("received data")>>))

ExchangeGroups ==
    /\ server_pc = "serving"
    /\ \E input \in Lists(GroupPool, MaxGroups) :
           Served("groups",
                  Handled(group_by(current_analysis, received_input(input)),
                          <<Text("received groups")>>))

ExchangeNext ==
    \/ ServeShutdown
    \/ ServeClear
    \/ ExchangeData
    \/ ExchangeGroups
    \/ ServeWeights
    \/ ServeReplicateWeights
    \/ ServeEstimate
    \/ ServeCalculate
    \/ ServeUnknown

SpecExchange == ServerInit /\ [][ExchangeNext]_vars

\* ------------------------------------------------------------------------
\* SpecSession: the command loop of the server with a client that sets
\* weights, the factor, estimators and options but sends no data and no
\* groups
\* ------------------------------------------------------------------------

\* quantile_type.to_string().to_lowercase()
to_lowercase(quantile_type) ==
    IF quantile_type = "Lower" THEN "lower"
    ELSE IF quantile_type = "Upper" THEN "upper" ELSE "interpolation"

ServeLinearRegression ==
    /\ server_pc = "serving"
    /\ Served("linear regression",
              Handled(linreg(current_analysis),
                      <<Text("set analysis to " \o "linear regression")>>))

ServeQuantiles ==
    /\ server_pc = "serving"
    /\ Served("quantiles",
              Handled(select_quantiles(current_analysis),
                      <<Text("set analysis to " \o "quantiles")>>))

ServeSetQuantiles ==
    /\ server_pc = "serving"
    /\ \E quantiles0 \in QuantileLists :
           Served("set quantiles",
                  Handled(set_quantiles(current_analysis, quantiles0),
                          <<Text("set quantiles as requested")>>))

ServeQuantileType ==
    /\ server_pc = "serving"
    /\ \E quantile_type \in QuantileTypes :
           Served("quantile type",
                  Handled(set_quantile_type(current_analysis, quantile_type),
                          <<Text("quantile type set to " \o to_lowercase(quantile_type))>>))

ServeWithIntercept ==
    /\ server_pc = "serving"
    /\ \E intercept \in BOOLEAN :
           Served("with intercept",
                  Handled(with_intercept(current_analysis, intercept),
                          <<Text("with intercept set to "
                                     \o (IF intercept THEN "true" ELSE "false"))>>))

SessionNext ==
    \/ ServeShutdown
    \/ ServeClear
    \/ ServeWeights
    \/ ServeReplicateWeights
    \/ ServeSetVarianceAdjustmentFactor
    \/ ServeEstimate
    \/ ServeLinearRegression
    \/ ServeQuantiles
    \/ ServeSetQuantiles
    \/ ServeQuantileType
    \/ ServeWithIntercept
    \/ ServeCalculate
    \/ ServeUnknown

SpecSession == ServerInit /\ [][SessionNext]_vars

\* C27: after a clear command, whatever commands preceded it, the server's
\* builder equals a freshly created one (no data, weights, replicate weights
\* or grouping, no estimator, no recorded options, alpha = 1.0), the reply is
\* "cleared", and the server keeps serving; an immediately following
\* calculate fails for the missing estimate.
C27_Cleared ==
    /\ [](message = "clear"
          => /\ current_analysis = analysis
             /\ ~current_analysis.x.some /\ ~current_analysis.wgt.some
             /\ ~current_analysis.repwgts.some /\ ~current_analysis.groups.some
             /\ ~current_analysis.estimate_name.some
             /\ ~current_analysis.estimate.some
             /\ DOMAIN current_analysis.options = {}
             /\ current_analysis.variance_adjustment_factor = <<1, 1>>
             /\ replies = <<[text |-> "cleared", data |-> <<>>]>>
             /\ server_pc = "serving")
    /\ [][(message = "clear" /\ message' = "calculate")
          => /\ replies' = <<[text |-> "error calculating: Analysis is missing some element: estimate",
                              data |-> <<>>]>>
             /\ server_pc' = "serving"]_vars

\* the server has answered a clear command and goes on serving
C27_Witness ==
    /\ message = "clear" /\ server_pc = "serving"
    /\ replies = <<Text("cleared")>>
    /\ current_analysis = analysis


\* ------------------------------------------------------------------------
\* Properties of calculate(), read off the state right after the call
\* ------------------------------------------------------------------------

Called == returned.kind # "none"

HasEstimate == analysis1.estimate.some

HasData == analysis1.x.some /\ Len(analysis1.x.value) > 0

Grouped == analysis1.groups.some /\ Len(analysis1.groups.value) > 0

\* calculate() got past the two presence checks
Prepares == Called /\ HasEstimate /\ HasData

\* every data imputation, the weights, the replicate weights and (when
\* grouped) every grouping matrix have the same number of rows
RowsAgree ==
    LET data == analysis1.x.value
        n == NRows(data[1])
    IN  /\ \A i \in 1..Len(data) : NRows(data[i]) = n
        /\ Len(analysis1.wgt.value) = n
        /\ NRows(analysis1.repwgts.value) = n
        /\ Grouped => \A j \in 1..Len(analysis1.groups.value) :
                          NRows(analysis1.groups.value[j]) = n

\* no NaN among the weights and the replicate weights
WeightsClean ==
    /\ \A r \in 1..Len(analysis1.wgt.value) : ~IsNaN(analysis1.wgt.value[r])
    /\ \A r \in 1..NRows(analysis1.repwgts.value) :
           \A c \in 1..analysis1.repwgts.value.ncols :
               ~IsNaN(analysis1.repwgts.value.rows[r][c])

\* the imputations whose grouping holds the key, ascending, among 1..n
RECURSIVE Occurrences(_, _)
Occurrences(key, n) ==
    IF n = 0 THEN <<>>
    ELSE IF key \in get_keys(analysis1.groups.value[n])
         THEN Append(Occurrences(key, n - 1), n)
         ELSE Occurrences(key, n - 1)

\* the engine run on the rows of the key in the imputations that hold it
EngineOnOccurrences(key, order) ==
    LET occ == Occurrences(key, Len(analysis1.groups.value))
        g(j) == analysis1.groups.value[occ[j]]
    IN  replicate_estimates(analysis1.estimate.value,
            [j \in 1..Len(occ) |-> split_by(analysis1.x.value[occ[j]], g(j))[key]],
            [j \in 1..Len(occ) |-> split_by_vec(analysis1.wgt.value, g(j))[key]],
            [j \in 1..Len(occ) |-> split_by(analysis1.repwgts.value, g(j))[key]],
            analysis1.variance_adjustment_factor, order)

\* the engine run on the rows of the key under the single shared grouping
EngineOnShared(key, order) ==
    LET g == analysis1.groups.value[1]
    IN  replicate_estimates(analysis1.estimate.value,
            [i \in 1..Len(analysis1.x.value) |-> split_by(analysis1.x.value[i], g)[key]],
            <<split_by_vec(analysis1.wgt.value, g)[key]>>,
            <<split_by(analysis1.repwgts.value, g)[key]>>,
            analysis1.variance_adjustment_factor, order)

\* C1: grouped calculate() with one grouping matrix per imputation does not
\* abort, the key set of its result is the union of the group keys of all
\* imputations, and the entry of a key is computed from exactly the
\* imputations in which the key occurs.
C1_UnionOfKeys ==
    (/\ Prepares /\ Grouped
     /\ Len(analysis1.groups.value) = Len(analysis1.x.value)
     /\ RowsAgree /\ WeightsClean)
    => /\ returned.kind = "ok"
       /\ DOMAIN returned.results =
              UNION {get_keys(analysis1.groups.value[i]) :
                        i \in 1..Len(analysis1.groups.value)}
       /\ \A key \in DOMAIN returned.results :
              \E order \in Orders(Len(Occurrences(key, Len(analysis1.groups.value)))) :
                  returned.results[key] = EngineOnOccurrences(key, order)

\* C2: whenever the row counts of data, weights, replicate weights or
\* grouping disagree, calculate() returns an Inconsistency error value and
\* no result map; it never aborts.
C2_InconsistencyReturned ==
    (Prepares /\ ~RowsAgree)
    => /\ returned.kind = "err"
       /\ returned.error.type = "Inconsistency"
       /\ returned.results = <<>>

\* C6: calculate() on a builder without estimator returns
\* MissingElement("estimate"), whatever else is set or missing, and no
\* result map.
C6_MissingEstimate ==
    (Called /\ ~HasEstimate)
    => returned = Calculated("err", MissingElementError("estimate"), <<>>, {})

C6_Witness ==
    /\ Called /\ ~HasEstimate /\ ~analysis1.x.some
    /\ returned.error.details = "Analysis is missing some element: estimate"

\* C7: calculate() with an estimator but with data never set, or set to an
\* empty list, returns MissingElement("data") and invokes the engine for
\* no key.
C7_MissingData ==
    (Called /\ HasEstimate /\ ~HasData)
    => returned = Calculated("err", MissingElementError("data"), <<>>, {})

C7_Witness ==
    /\ Called /\ HasEstimate
    /\ analysis1.x.some /\ Len(analysis1.x.value) = 0
    /\ returned.error.details = "Analysis is missing some element: data"

\* C8: with more than one grouping matrix and a different number of data
\* imputations calculate() returns Inconsistency before any partitioning or
\* engine call (also when the row counts would not allow the partitioning);
\* a single grouping matrix is accepted for every number of imputations
\* and partitions each of them.
C8_GroupingCount ==
    /\ (/\ Prepares /\ Grouped
        /\ Len(analysis1.groups.value) > 1
        /\ Len(analysis1.groups.value) # Len(analysis1.x.value))
       => returned = Calculated("err",
              InconsistencyError("number of data sets does not match number of sets with grouping columns"),
              <<>>, {})
    /\ (/\ Prepares /\ Grouped
        /\ Len(analysis1.groups.value) = 1
        /\ RowsAgree /\ WeightsClean)
       => /\ returned.kind = "ok"
          /\ DOMAIN returned.results = get_keys(analysis1.groups.value[1])
          /\ returned.invoked = get_keys(analysis1.groups.value[1])
          /\ \A key \in DOMAIN returned.results :
                 \E order \in Orders(Len(analysis1.x.value)) :
                     returned.results[key] = EngineOnShared(key, order)

C8_Witness ==
    /\ Prepares /\ Grouped
    /\ Len(analysis1.groups.value) = 2 /\ Len(analysis1.x.value) = 1
    /\ NRows(analysis1.groups.value[1]) # NRows(analysis1.x.value[1])
    /\ returned.error.type = "Inconsistency"

\* ------------------------------------------------------------------------
\* Properties of replicate_estimates (SpecEngine)
\* ------------------------------------------------------------------------

SomeTaskPanicked == \E i \in DOMAIN tasks : tasks[i].pc = "panicked"

\* the call has ended: with a result or with a panic
CallEnded == main_pc \in {"returned", "panicked"}

\* C3: if the estimator fails in any task, the call returns no
\* ReplicatedEstimates (it never gets to the receive loop and ends in a
\* panic), and when the call ends every spawned task has ended: none is
\* still running.
C3_TaskFailureFailsCall ==
    SomeTaskPanicked
    => /\ main_pc \in {"spawn", "panicked"}
       /\ result = NoEstimates
       /\ main_pc = "panicked"
          => /\ Len(tasks) = Len(x)
             /\ \A i \in DOMAIN tasks : tasks[i].pc \in {"finished", "panicked"}

C3_Witness ==
    /\ main_pc = "panicked"
    /\ Len(tasks) = 2
    /\ tasks[1].pc = "panicked" /\ tasks[2].pc = "finished"
    /\ Len(tasks[1].replicated_estimates) = 0
    /\ tasks[1].estimates_imputation.estimates # <<>>
    /\ Len(channel) = 1

\* a per-imputation list rearranged by the permutation; a shared one is kept
Permuted(list, perm) ==
    IF Len(list) = Len(perm) THEN [i \in 1..Len(perm) |-> list[perm[i]]] ELSE list

SameNumbers(a, b) ==
    /\ a.final_estimates = b.final_estimates
    /\ a.sampling_variances = b.sampling_variances
    /\ a.imputation_variances = b.imputation_variances
    /\ a.standard_errors = b.standard_errors

C9_LengthMismatchFatal ==
    (\/ Len(weights) \notin {1, Len(x)}
     \/ Len(replicate_wgts) \notin {1, Len(x)})
    => /\ main_pc \in {"start", "panicked"}
       /\ tasks = <<>>
       /\ evaluated = {}
       /\ result = NoEstimates

C9_Witness ==
    /\ main_pc = "panicked"
    /\ Len(x) = 2
    /\ Len(weights) = 1
    /\ Len(replicate_wgts) = 3

\* every weight vector handed in fits its imputation and holds no NaN
WeightsUsable ==
    /\ Len(weights) \in {1, Len(x)}
    /\ \A i \in 1..Len(x) :
           validity_of_data_and_weights(x[i], task_weight(weights, i))

\* C10: an empty replicate-weights list is accepted for any m >= 1: the
\* call does not panic and returns sampling variances that are all 0.
C10_EmptyReplicateList ==
    (Len(replicate_wgts) = 0 /\ Len(x) >= 1 /\ WeightsUsable)
    => /\ main_pc # "panicked"
       /\ main_pc = "returned"
          => /\ ~result.panicked
             /\ \A k \in 1..Len(result.sampling_variances) :
                    result.sampling_variances[k] = R(0)

\* ------------------------------------------------------------------------
\* Properties of the server (SpecServer)
\* ------------------------------------------------------------------------

\* what calculate() on the server's builder comes to (the builder after
\* the call differs from the one before by the filled-in weights only, and
\* calculate() fills them in first)
CalculateKind ==
    (CHOOSE outcome \in
        {calculate_outcome(current_analysis, orders, korder) :
            orders \in ArrivalOrders(calculate_imputations(current_analysis)),
            korder \in KeyOrders(calculate_keys(current_analysis))} : TRUE).kind

\* the texts "error calculating: <message>" for the failures calculate() has
ErrorCalculatingTexts ==
    {"error calculating: " \o what :
        what \in {MissingElementError("estimate").details,
                  MissingElementError("data").details,
                  InconsistencyError("unequal number of rows for data and weights").details,
                  InconsistencyError("unequal number of rows for data and replicate weights").details,
                  InconsistencyError("number of data sets does not match number of sets with grouping columns").details,
                  "a scoped thread panicked",
                  "unequal number of rows in split_by"}}

\* C5: for every failure of a calculate command, builder errors and kernel
\* failures alike, the server sends exactly one reply "error calculating:
\* <message>", no payload, and keeps serving.
C5_OneErrorReply ==
    (message = "calculate" /\ CalculateKind # "ok")
    => /\ server_pc = "serving"
       /\ Len(replies) = 1
       /\ replies[1].text \in ErrorCalculatingTexts
       /\ replies[1].data = <<>>

\* the outcomes calculate() can have on a builder
CalculateOutcomes(self) ==
    {calculate_outcome(self, orders, korder) :
        orders \in ArrivalOrders(calculate_imputations(self)),
        korder \in KeyOrders(calculate_keys(self))}

\* C26: on a successful calculate command the server sends exactly two
\* messages to the requesting client, in this order: first "calculation
\* complete", then the binary serialization of the result map, whose keys
\* are exactly the group keys of calculate()'s result; the builder is still
\* usable for further commands afterwards (the loop goes on with it, and a
\* further calculate succeeds again).
C26_TwoMessages ==
    [][(server_pc = "serving" /\ message' = "calculate" /\ CalculateKind = "ok")
       => /\ Len(replies') = 2
          /\ replies'[1] = [text |-> "calculation complete", data |-> <<>>]
          /\ replies'[2].text = ""
          /\ \E outcome \in CalculateOutcomes(current_analysis) :
                 /\ DOMAIN replies'[2].data.msgpack = DOMAIN outcome.results
                 /\ \A key \in DOMAIN outcome.results :
                        replies'[2].data.msgpack[key]
                            = from_internal(outcome.results[key])
          /\ server_pc' = "serving"
          /\ current_analysis' = calculate_self(current_analysis)
          /\ \A outcome \in CalculateOutcomes(current_analysis') :
                 outcome.kind = "ok"]_vars

\* a calculate command on a grouped builder has been answered with the two
\* messages, the second one holding more than one key
C26_Witness ==
    /\ message = "calculate" /\ server_pc = "serving"
    /\ Len(replies) = 2
    /\ replies[1].text = "calculation complete"
    /\ Cardinality(DOMAIN replies[2].data.msgpack) > 1
    /\ current_analysis.x.some

\* the loop has been left
LoopEnded == server_pc # "serving"

\* C28: on a shutdown command the server replies "shutting down" exactly
\* once, leaves its command loop and ends gracefully; no command received
\* after shutdown is processed, and no command other than shutdown ends the
\* loop.
C28_OnlyShutdownEnds ==
    /\ [](message = "shutdown"
          => /\ replies = <<[text |-> "shutting down", data |-> <<>>]>>
             /\ server_pc = "ended")
    /\ [][server_pc = "ended" => UNCHANGED vars]_vars
    /\ [](LoopEnded => message = "shutdown")

\* the loop has been left by the panic of a calculate command
C28_EndedByCalculate ==
    /\ LoopEnded /\ message = "calculate"
    /\ server_pc = "panicked" /\ replies = <<>>

\* ------------------------------------------------------------------------
\* The combination rules of replicate_estimates (SpecEngine)
\* ------------------------------------------------------------------------

Sq(a) == FMul(a, a)

\* the point estimates of imputation i under its weights
PointEstimates(i) == apply(estimator, x[i], task_weight(weights, i)).estimates

\* the number of replicate columns of imputation i, and the estimates under
\* column c of them
Replicates(i) == task_repweights(replicate_wgts, i).ncols

ReplicateEstimates(i, c) ==
    apply(estimator, x[i], Column(task_repweights(replicate_wgts, i), c)).estimates

Returned == main_pc = "returned" /\ ~result.panicked

\* the number of parameters of a returned call
Parameters == IF Len(x) = 0 THEN 0 ELSE Len(PointEstimates(1))

\* C11: for every parameter k the sampling variance returned equals
\* (1/m) * SUM_i factor * SUM_c (replicate_i_c[k] - point_i[k])^2.
C11_SamplingVariance ==
    Returned
    => /\ Len(result.sampling_variances) = Parameters
       /\ \A k \in 1..Parameters :
              result.sampling_variances[k] =
                  FMul(FDiv(R(1), R(Len(x))),
                       Sum([i \in 1..Len(x) |->
                               FMul(factor,
                                    Sum([c \in 1..Replicates(i) |->
                                            Sq(FSub(ReplicateEstimates(i, c)[k],
                                                    PointEstimates(i)[k]))]))]))

C11_Witness ==
    /\ Returned
    /\ Len(x) = 2 /\ Len(replicate_wgts) = 2
    /\ Replicates(1) # Replicates(2)
    /\ factor = <<1, 2>>
    /\ tasks[1].estimates_imputation # tasks[2].estimates_imputation
    /\ \A k \in 1..Parameters : result.sampling_variances[k] \notin {R(0), NaN}

\* the mean over the imputations of the point estimates of parameter k
MeanOfPoints(k) ==
    FDiv(Sum([i \in 1..Len(x) |-> PointEstimates(i)[k]]), R(Len(x)))

\* C12: for every parameter k the final estimate is the mean over the m
\* imputations of the point estimates, the imputation variance for m > 1 is
\* (1/(m-1)) * SUM_i (point_i[k] - final[k])^2, and the square of the
\* standard error is V_samp[k] + (1 + 1/m) * V_imp[k].
C12_CombinationRules ==
    Returned
    => /\ Len(result.final_estimates) = Parameters
       /\ Len(result.imputation_variances) = Parameters
       /\ Len(result.standard_errors) = Parameters
       /\ \A k \in 1..Parameters :
              /\ result.final_estimates[k] = MeanOfPoints(k)
              /\ Len(x) > 1 =>
                     result.imputation_variances[k] =
                         FMul(FDiv(R(1), R(Len(x) - 1)),
                              Sum([i \in 1..Len(x) |->
                                      Sq(FSub(PointEstimates(i)[k], MeanOfPoints(k)))]))
              /\ result.standard_errors[k].sqrt_of =
                     FAdd(result.sampling_variances[k],
                          FMul(FAdd(R(1), FDiv(R(1), R(Len(x)))),
                               result.imputation_variances[k]))

C12_Witness ==
    /\ Returned
    /\ Len(x) = 2
    /\ PointEstimates(1) # PointEstimates(2)
    /\ \A k \in 1..Parameters :
           /\ result.imputation_variances[k] \notin {R(0), NaN}
           /\ result.sampling_variances[k] \notin {R(0), NaN}
           /\ result.standard_errors[k].sqrt_of \notin {R(0), NaN}

\* no imputation has a replicate column
NoReplicates == \A i \in 1..Len(x) : Replicates(i) = 0

\* C13: with r = 0 replicate columns and m >= 1 every sampling variance is
\* exactly 0, every task evaluates the estimator once (under the weights)
\* and never under a replicate column, and the square of the standard
\* error is (1 + 1/m) * V_imp.
C13_NoResampling ==
    (Returned /\ Len(x) >= 1 /\ NoReplicates)
    => /\ result.sampling_variances = Zeros(Parameters)
       /\ evaluated = {[imputation |-> i, x |-> x[i], wgt |-> task_weight(weights, i)] :
                          i \in 1..Len(x)}
       /\ \A i \in 1..Len(x) : tasks[i].replicated_estimates = <<>>
       /\ \A k \in 1..Parameters :
              result.standard_errors[k].sqrt_of =
                  FMul(FAdd(R(1), FDiv(R(1), R(Len(x)))),
                       result.imputation_variances[k])

C13_Witness ==
    /\ Returned /\ Len(x) = 2 /\ NoReplicates
    /\ Parameters = 1
    /\ result.imputation_variances[1] \notin {R(0), NaN}
    /\ result.standard_errors[1].sqrt_of # R(0)

\* C14: with m = 1 every imputation variance is exactly 0, the final
\* estimates are the point estimates of the imputation, and the square of
\* the standard error is V_samp.
C14_SingleImputation ==
    (Returned /\ Len(x) = 1)
    => /\ result.imputation_variances = Zeros(Parameters)
       /\ result.final_estimates = PointEstimates(1)
       /\ \A k \in 1..Parameters :
              result.standard_errors[k].sqrt_of = result.sampling_variances[k]

C14_Witness ==
    /\ Returned /\ Len(x) = 1
    /\ Replicates(1) = 2
    /\ Parameters = 1
    /\ result.sampling_variances[1] \notin {R(0), NaN}

\* ------------------------------------------------------------------------
\* Grouped and ungrouped calculate(), default weights (Spec)
\* ------------------------------------------------------------------------

\* the rows of the grouping matrix g that render to the key, ascending
RowsRendering(g, key) ==
    LET hits == {r \in 1..NRows(g) : RowKey(g.rows[r]) = key}
    IN  CHOOSE s \in [1..Cardinality(hits) -> hits] :
            \A a, b \in 1..Cardinality(hits) : a < b => s[a] < s[b]

\* the engine run on the rows of every imputation, of the weights and of
\* the replicate weights whose grouping tuple renders to the key
EngineOnRendering(key, order) ==
    LET g == analysis1.groups.value[1]
        sel == RowsRendering(g, key)
        pick(m) == Mat(m.ncols, [j \in 1..Len(sel) |-> m.rows[sel[j]]])
    IN  replicate_estimates(analysis1.estimate.value,
            [i \in 1..Len(analysis1.x.value) |-> pick(analysis1.x.value[i])],
            <<[j \in 1..Len(sel) |-> analysis1.wgt.value[sel[j]]]>>,
            <<pick(analysis1.repwgts.value)>>,
            analysis1.variance_adjustment_factor, order)

\* C17: with one grouping matrix shared by all imputations, the result of
\* calculate() holds exactly one entry per distinct grouping tuple, and the
\* entry of a key equals the engine run, with the current variance
\* adjustment factor, on only those rows (in original order) of every data
\* imputation, of the weights and of the replicate weights whose grouping
\* tuple renders to the key.
C17_SharedGrouping ==
    (/\ Prepares /\ Grouped
     /\ Len(analysis1.groups.value) = 1
     /\ RowsAgree /\ WeightsClean)
    => /\ returned.kind = "ok"
       /\ DOMAIN returned.results =
              {RowKey(analysis1.groups.value[1].rows[r]) :
                  r \in 1..NRows(analysis1.groups.value[1])}
       /\ \A key \in DOMAIN returned.results :
              \E order \in Orders(Len(analysis1.x.value)) :
                  returned.results[key] = EngineOnRendering(key, order)

C17_Witness ==
    /\ Prepares /\ Grouped /\ RowsAgree /\ WeightsClean
    /\ Len(analysis1.groups.value) = 1
    /\ Len(analysis1.x.value) = 2
    /\ analysis1.x.value[1] # analysis1.x.value[2]
    /\ analysis1.repwgts.value.ncols = 2
    /\ analysis1.variance_adjustment_factor = FDiv(R(1), R(2))
    /\ returned.kind = "ok"
    /\ Cardinality(DOMAIN returned.results) = 2

\* the engine run on all rows of every imputation
EngineOnAllRows(order) ==
    replicate_estimates(analysis1.estimate.value,
                        analysis1.x.value,
                        <<analysis1.wgt.value>>,
                        <<analysis1.repwgts.value>>,
                        analysis1.variance_adjustment_factor, order)

\* C18: when no grouping is set, or the grouping list is empty, a
\* successful calculate() returns a map with exactly one entry, keyed
\* ["overall"], computed from all rows of the inputs.
C18_OverallOnly ==
    (Called /\ ~Grouped /\ returned.kind = "ok")
    => /\ DOMAIN returned.results = {<<"overall">>}
       /\ \E order \in Orders(Len(analysis1.x.value)) :
              returned.results[<<"overall">>] = EngineOnAllRows(order)

C18_Witness ==
    /\ Called /\ returned.kind = "ok"
    /\ analysis1.groups.some /\ Len(analysis1.groups.value) = 0
    /\ Len(analysis1.x.value) = 2
    /\ analysis1.x.value[1] # analysis1.x.value[2]
    /\ analysis1.repwgts.value.ncols = 2
    /\ DOMAIN returned.results = {<<"overall">>}

\* calculate() on the builder can return the outcome
CanReturn(self, outcome) ==
    \E orders \in ArrivalOrders(calculate_imputations(self)),
       korder \in KeyOrders(calculate_keys(self)) :
        outcome = calculate_outcome(self, orders, korder)

\* n ones, and the matrix with n rows and no column
Ones(n) == [r \in 1..n |-> R(1)]

NoColumns(n) == Mat(0, [r \in 1..n |-> <<>>])

\* C19: what calculate() returns on a builder whose weights were never set
\* is what it returns with explicit weights of n ones, n the row count of
\* the data; what it returns on a builder whose replicate weights were
\* never set is what it returns with an explicit n x 0 replicate weight
\* matrix, and every sampling variance of a successful such call is 0.
C19_DefaultWeights ==
    [][(returned'.kind # "none" /\ HasData)
       => LET n == NRows(analysis1.x.value[1])
          IN  /\ ~analysis1.wgt.some
                 => CanReturn(set_weights(analysis1, Ones(n)), returned')
              /\ ~analysis1.repwgts.some
                 => /\ CanReturn(with_replicate_weights(analysis1, NoColumns(n)),
                                 returned')
                    /\ returned'.kind = "ok"
                       => \A key \in DOMAIN returned'.results :
                              \A k \in 1..Len(returned'.results[key].sampling_variances) :
                                  returned'.results[key].sampling_variances[k] = R(0)]_vars

C19_Witness ==
    /\ Called /\ returned.kind = "ok"
    /\ Len(analysis1.x.value) = 2
    /\ analysis1.x.value[1] # analysis1.x.value[2]
    /\ analysis1.wgt.value = Ones(NRows(analysis1.x.value[1]))
    /\ analysis1.repwgts.value = NoColumns(NRows(analysis1.x.value[1]))
    /\ \E key \in DOMAIN returned.results :
           /\ Len(returned.results[key].sampling_variances) > 0
           /\ returned.results[key].standard_errors[1] # FSqrt(R(0))

\* C38: calculate() never changes the builder's data, grouping, estimator,
\* recorded options or variance adjustment factor, and never changes a
\* weights or replicate-weights slot that was already set, whether it
\* returns a result or an error; the only change it makes is to fill an
\* absent weights slot with n ones and an absent replicate-weights slot with
\* an n x 0 matrix (n the rows of the first imputation at that call), and
\* these filled values stay in the builder after calculate() returns.
C38_CalculateFrame ==
    [][returned'.kind \in {"ok", "err"}
       => LET prepares == analysis1.estimate.some /\ HasData
          IN  /\ analysis1'.x = analysis1.x
              /\ analysis1'.groups = analysis1.groups
              /\ analysis1'.estimate_name = analysis1.estimate_name
              /\ analysis1'.estimate = analysis1.estimate
              /\ analysis1'.options = analysis1.options
              /\ analysis1'.variance_adjustment_factor
                     = analysis1.variance_adjustment_factor
              /\ analysis1'.wgt =
                     IF ~analysis1.wgt.some /\ prepares
                     THEN Some(Ones(NRows(analysis1.x.value[1])))
                     ELSE analysis1.wgt
              /\ analysis1'.repwgts =
                     IF ~analysis1.repwgts.some /\ prepares
                     THEN Some(NoColumns(NRows(analysis1.x.value[1])))
                     ELSE analysis1.repwgts]_vars

\* calculate() has returned an error for replicate weights of two rows on
\* data of three, and the weights it filled in are in the builder
C38_Witness ==
    /\ returned.kind = "err"
    /\ returned.error.type = "Inconsistency"
    /\ analysis1.x.some /\ analysis1.x.value = <<Col1(<<R(1), R(2), R(3)>>)>>
    /\ analysis1.repwgts.some /\ NRows(analysis1.repwgts.value) = 2
    /\ analysis1.wgt = Some(Ones(3))

\* calculate() has returned results and both defaults are in the builder
C38_WitnessResult ==
    /\ returned.kind = "ok"
    /\ Len(analysis1.x.value) = 2
    /\ analysis1.wgt = Some(Ones(2))
    /\ analysis1.repwgts = Some(NoColumns(2))
    /\ analysis1.groups.some

\* ------------------------------------------------------------------------
\* SpecCopy: a client program that drives several builders made by copy().
\* The slots x, wgt, repwgts and groups of a builder hold Rc pointers; rcs
\* gives the strong count and the value of every allocation
\* ------------------------------------------------------------------------

MaxBuilders == 2

MaxRc == 2

NoRc == [strong |-> 0, value |-> <<>>]

Allocated(heap) == {h \in DOMAIN heap : heap[h].strong > 0}

\* Rc::new, Rc::clone and the drop of an Rc
rc_new_pointer(heap) ==
    CHOOSE h \in DOMAIN heap \ Allocated(heap) :
        \A other \in DOMAIN heap \ Allocated(heap) : h <= other

rc_new(heap, value) ==
    [heap EXCEPT ![rc_new_pointer(heap)] = [strong |-> 1, value |-> value]]

rc_clone(heap, pointer) ==
    IF pointer.some
    THEN [heap EXCEPT ![pointer.value].strong = @ + 1]
    ELSE heap

rc_drop(heap, pointer) ==
    IF ~pointer.some THEN heap
    ELSE IF heap[pointer.value].strong = 1
    THEN [heap EXCEPT ![pointer.value] = NoRc]
    ELSE [heap EXCEPT ![pointer.value].strong = @ - 1]

\* an assignment that writes the value through the pointer the slot holds
assign_through(heap, slot, value) ==
    IF slot.some
    THEN [heap |-> [heap EXCEPT ![slot.value].value = value], slot |-> slot]
    ELSE [heap |-> rc_new(heap, value), slot |-> Some(rc_new_pointer(heap))]

\* slot = Some(Rc::new(value)): the new allocation, then the drop of the
\* pointer the slot held
assign(heap, slot, value) ==
    [heap |-> rc_drop(rc_new(heap, value), slot),
     slot |-> Some(rc_new_pointer(heap))]

\* a copy that takes the arrays and the estimator but not the factor
copy_without_factor(self) ==
    [x |-> self.x, wgt |-> self.wgt, repwgts |-> self.repwgts,
     variance_adjustment_factor |-> R(1),
     estimate_name |-> self.estimate_name, estimate |-> self.estimate,
     groups |-> self.groups, options |-> self.options]

\* copy(): the new builder, and the allocations after the four Rc clones
copy(self) ==
    [x |-> self.x, wgt |-> self.wgt, repwgts |-> self.repwgts,
     variance_adjustment_factor |-> self.variance_adjustment_factor,
     estimate_name |-> self.estimate_name, estimate |-> self.estimate,
     groups |-> self.groups, options |-> self.options]

copy_clones(heap, self) ==
    rc_clone(rc_clone(rc_clone(rc_clone(heap, self.x), self.wgt), self.repwgts),
             self.groups)

\* the builder with every pointer replaced by the value it points to
deref(heap, pointer) ==
    IF pointer.some THEN Some(heap[pointer.value].value) ELSE pointer

held(heap, self) ==
    [self EXCEPT !.x = deref(heap, self.x), !.wgt = deref(heap, self.wgt),
                 !.repwgts = deref(heap, self.repwgts),
                 !.groups = deref(heap, self.groups)]

\* summary() of a builder that holds its values
summary(self) ==
    LET estimate_name == IF self.estimate_name.some
                         THEN self.estimate_name.value ELSE "none"
        group_info == IF ~self.groups.some THEN ""
                      ELSE " by " \o ToString(self.groups.value[1].ncols)
                               \o " grouping columns"
        data_info == IF ~self.x.some THEN "no data"
                     ELSE ToString(Len(self.x.value)) \o " datasets with "
                              \o ToString(NRows(self.x.value[1])) \o " cases"
        wgt_info == IF ~self.wgt.some THEN "wgt missing"
                    ELSE ToString(Len(self.wgt.value)) \o " weights of sum "
                             \o F64ToString(Sum(self.wgt.value))
        factor_info == IF self.variance_adjustment_factor = R(1) THEN ""
                       ELSE ", factor "
                                \o F64ToString(self.variance_adjustment_factor)
        repwgt_info == IF ~self.repwgts.some THEN "no replicate weights"
                       ELSE ToString(self.repwgts.value.ncols)
                                \o " replicate weights" \o factor_info
    IN  estimate_name \o group_info \o " (" \o data_info \o "; " \o wgt_info
            \o "; " \o repwgt_info \o ")"

CopyInit ==
    /\ analysis1 = analysis
    /\ returned = NoCall
    /\ EngineIdle
    /\ ServerIdle
    /\ analyses = <<analysis>>
    /\ rcs = [h \in 1..MaxRc |-> NoRc]

HasFree == Allocated(rcs) # DOMAIN rcs

CopyForData ==
    /\ HasFree
    /\ \E b \in DOMAIN analyses, mat \in {Col1(<<R(1), R(3)>>)} :
           LET assigned == assign(rcs, analyses[b].x,
                                  for_data(analyses[b], ImputationNo(mat)).x.value)
           IN  /\ analyses' = [analyses EXCEPT ![b].x = assigned.slot]
               /\ rcs' = assigned.heap
    /\ UNCHANGED <<builderVars, engineVars, serverVars>>

CopySetWeights ==
    /\ HasFree
    /\ \E b \in DOMAIN analyses, wgt \in WeightPool :
           LET assigned == assign(rcs, analyses[b].wgt,
                                  set_weights(analyses[b], wgt).wgt.value)
           IN  /\ analyses' = [analyses EXCEPT ![b].wgt = assigned.slot]
               /\ rcs' = assigned.heap
    /\ UNCHANGED <<builderVars, engineVars, serverVars>>

CopyWithReplicateWeights ==
    /\ HasFree
    /\ \E b \in DOMAIN analyses, replicate_weights \in RepWeightPool :
           LET assigned ==
                   assign(rcs, analyses[b].repwgts,
                          with_replicate_weights(analyses[b],
                                                 replicate_weights).repwgts.value)
           IN  /\ analyses' = [analyses EXCEPT ![b].repwgts = assigned.slot]
               /\ rcs' = assigned.heap
    /\ UNCHANGED <<builderVars, engineVars, serverVars>>

CopyGroupBy ==
    /\ HasFree
    /\ \E b \in DOMAIN analyses, mat \in {Col1(<<R(1), R(2)>>)} :
           LET assigned == assign(rcs, analyses[b].groups,
                                  group_by(analyses[b], ImputationNo(mat)).groups.value)
           IN  /\ analyses' = [analyses EXCEPT ![b].groups = assigned.slot]
               /\ rcs' = assigned.heap
    /\ UNCHANGED <<builderVars, engineVars, serverVars>>

CopySelectMean ==
    /\ \E b \in DOMAIN analyses :
           LET selected == select_mean(analyses[b])
           IN  analyses' = [analyses EXCEPT
                               ![b].estimate_name = selected.estimate_name,
                               ![b].estimate = selected.estimate]
    /\ UNCHANGED <<rcs, builderVars, engineVars, serverVars>>

CopyCopy ==
    /\ Len(analyses) < MaxBuilders
    /\ \E b \in DOMAIN analyses :
           /\ analyses' = Append(analyses, copy(analyses[b]))
           /\ rcs' = copy_clones(rcs, analyses[b])
    /\ UNCHANGED <<builderVars, engineVars, serverVars>>

CopyNext ==
    \/ CopyForData
    \/ CopySetWeights
    \/ CopyWithReplicateWeights
    \/ CopyGroupBy
    \/ CopySelectMean
    \/ CopyCopy

SpecCopy == CopyInit /\ [][CopyNext]_vars

\* the pointers a builder holds, and the number of builders whose slot
\* refers to an allocation
Pointers(self) ==
    {slot.value : slot \in {s \in {self.x, self.wgt, self.repwgts, self.groups} :
                               s.some}}

Holders(heap_analyses, h) ==
    Cardinality({b \in DOMAIN heap_analyses : h \in Pointers(heap_analyses[b])})

\* what builder b holds and what it reports
HoldsAndReports(b) ==
    [holds |-> held(rcs, analyses[b]),
     reports |-> summary(held(rcs, analyses[b]))]

HoldsAndReportsNext(b) ==
    [holds |-> held(rcs', analyses'[b]),
     reports |-> summary(held(rcs', analyses'[b]))]

Kernels ==
    {"mean", "frequencies", "missings", "quantiles", "correlation"}
        \cup {bind_quantiles(quantiles0, "Lower") : quantiles0 \in QuantileLists}

KernelData ==
    {Mat(2, <<<<R(1), R(2)>>, <<R(3), R(6)>>>>),
     Mat(2, <<<<R(1), R(2)>>, <<R(1), R(2)>>>>),
     Mat(2, <<<<R(1), NaN>>, <<R(3), NaN>>>>),
     Mat(2, <<<<R(1), R(2)>>, <<R(3), R(6)>>, <<R(3), R(6)>>>>)}

KernelWeights ==
    {<<R(1), R(1)>>, <<R(1), R(2)>>, <<R(1), R(1), R(1)>>, <<R(2), R(1), R(1)>>}

KernelRepWeights ==
    {Mat(0, <<<<>>, <<>>>>), Col1(<<R(2), R(1)>>), Col1(<<R(1), R(3), R(1)>>)}

KernelInit ==
    /\ CopyIdle
    /\ analysis1 = analysis
    /\ returned = NoCall
    /\ ServerIdle
    /\ estimator \in Kernels
    /\ x \in [1..MaxImp -> KernelData]
    /\ weights \in {<<wgt>> : wgt \in KernelWeights}
    /\ replicate_wgts \in {<<repwgts>> : repwgts \in KernelRepWeights}
    /\ factor = R(1)
    /\ main_pc = "kernel"
    /\ tasks = <<>>
    /\ channel = <<>>
    /\ collector = collector_init
    /\ result = NoEstimates
    /\ evaluated = {}
    /\ sent_order = <<>>

KernelReplicate ==
    /\ main_pc = "kernel"
    /\ \E order \in Orders(Len(x)) :
           result' = replicate_estimates(estimator, x, weights, replicate_wgts,
                                         factor, order)
    /\ main_pc' = IF result'.panicked THEN "panicked" ELSE "returned"
    /\ evaluated' = {[imputation |-> i, x |-> x[i], wgt |-> task_weight(weights, i)] :
                        i \in 1..Len(x)}
    /\ UNCHANGED <<copyVars, builderVars, serverVars, engineInputs, tasks, channel,
                   collector, sent_order>>

KernelNext == KernelReplicate

SpecKernel == KernelInit /\ [][KernelNext]_vars

\* the call of SpecKernel has ended
KernelEnded == main_pc \in {"returned", "panicked"}

\* the columns of a matrix whose every value is NaN
AllNaN(mat) ==
    {cc \in 1..mat.ncols : \A r \in 1..NRows(mat) : IsNaN(mat.rows[r][cc])}

\* the evaluations of the kernel the call makes for imputation i: the point
\* evaluation first, then one per replicate column
Evaluations(i) ==
    <<apply(estimator, x[i], task_weight(weights, i))>>
        \o [c \in 1..task_repweights(replicate_wgts, i).ncols |->
               apply(estimator, x[i], Column(task_repweights(replicate_wgts, i), c))]

\* the parameter name refers to column cc: x{cc} follows its prefix, or
\* is the second column of a covariance or correlation
Refers(name, cc) ==
    LET prefixes == {"mean", "quantile", "ncases", "nweighted", "perc",
                     "missingcases", "missingweights", "percmissing",
                     "validcases", "validweights", "percvalid",
                     "covariance", "correlation"}
        keys == {F64ToString(R(v)) : v \in 0..6} \cup {"0.25", "0.5", "0.75"}
        suffixes == {""} \cup {"_" \o k : k \in keys}
                         \cup {"_x" \o ToString(j) : j \in 1..2}
    IN  \/ \E pre \in prefixes, suf \in suffixes :
               name = pre \o "_x" \o ToString(cc) \o suf
        \/ \E pre \in {"covariance", "correlation"}, i \in 1..2 :
               name = pre \o "_x" \o ToString(i) \o "_x" \o ToString(cc)

\* C15: for every estimator kernel, when every value of a column of an
\* imputation is NaN, the kernel and the call of replicate_estimates around
\* it succeed, and every output of the kernel for a parameter that refers
\* to the column is NaN.
C15_AllNaNColumn ==
    (KernelEnded /\ \E i \in 1..Len(x) : AllNaN(x[i]) # {})
    => /\ main_pc = "returned"
       /\ \A i \in 1..Len(x) : \A cc \in AllNaN(x[i]) :
              \A e \in 1..Len(Evaluations(i)) :
                  /\ ~Evaluations(i)[e].panicked
                  /\ \A k \in 1..Len(Evaluations(i)[e].estimates) :
                         Refers(Evaluations(i)[e].parameter_names[k], cc)
                         => IsNaN(Evaluations(i)[e].estimates[k])

\* the all-NaN column is fatal for quantiles and for correlation
C15_Fatal ==
    /\ KernelEnded /\ main_pc = "panicked"
    /\ estimator \in {"quantiles", "correlation"}
    /\ \A i \in 1..Len(x) : AllNaN(x[i]) # {}

\* C16: for every estimator kernel the list of parameter names depends only
\* on the number of columns, not on the values or on the weights: the names
\* of every evaluation of a call, replicate evaluations and other
\* imputations included, equal those of the point evaluation of the first
\* imputation, and the engine stacks the estimates by position.
C16_NamesByColumns ==
    (/\ KernelEnded
     /\ \A i \in 1..Len(x) : \A e \in 1..Len(Evaluations(i)) :
            ~Evaluations(i)[e].panicked)
    => /\ \A i \in 1..Len(x) : \A e \in 1..Len(Evaluations(i)) :
              Evaluations(i)[e].parameter_names = Evaluations(1)[1].parameter_names
       /\ main_pc = "returned"

\* ---- Lower-mode quantiles (SpecKernel) ----

\* the closure is quantiles_with_options bound with the type Lower
LowerBound ==
    estimator \in {bind_quantiles(quantiles0, "Lower") : quantiles0 \in QuantileLists}

ConfiguredQuantiles ==
    CHOOSE quantiles0 \in QuantileLists : estimator = bind_quantiles(quantiles0, "Lower")

\* the weights of the evaluation e of imputation i
EvaluationWeight(i, e) ==
    IF e = 1 THEN task_weight(weights, i)
    ELSE Column(task_repweights(replicate_wgts, i), e - 1)

DistinctValues(mat, cc) == {mat.rows[r][cc] : r \in 1..NRows(mat)} \ {NaN}

\* the weight of the rows of column cc with a value below v, or up to v
WeightBelow(mat, wgt, cc, v, inclusive) ==
    Sum([r \in 1..NRows(mat) |->
            IF \/ FLess(mat.rows[r][cc], v)
               \/ inclusive /\ mat.rows[r][cc] = v
            THEN wgt[r] ELSE R(0)])

WeightOfValues(mat, wgt, cc) ==
    Sum([r \in 1..NRows(mat) |-> IF IsNaN(mat.rows[r][cc]) THEN R(0) ELSE wgt[r]])

\* the values at which the cumulative-weight percentile exceeds q
Exceeding(mat, wgt, cc, q) ==
    {v \in DistinctValues(mat, cc) :
        FLess(q, FDiv(WeightBelow(mat, wgt, cc, v, TRUE), WeightOfValues(mat, wgt, cc)))}

FirstExceeding(mat, wgt, cc, q) ==
    CHOOSE v \in Exceeding(mat, wgt, cc, q) :
        \A o \in Exceeding(mat, wgt, cc, q) : FLessEq(v, o)

\* the distinct value immediately before v, or v when it is the smallest
PreviousDistinct(mat, cc, v) ==
    IF \A o \in DistinctValues(mat, cc) : ~FLess(o, v) THEN v
    ELSE CHOOSE p \in DistinctValues(mat, cc) :
             /\ FLess(p, v)
             /\ \A o \in DistinctValues(mat, cc) : FLess(o, v) => FLessEq(o, p)

\* the percentile of the weight before v raised by the weight of the first
\* row that holds v does not exceed q
RaisedWithin(mat, wgt, cc, v, q) ==
    FLessEq(FDiv(FAdd(WeightBelow(mat, wgt, cc, v, FALSE),
                      wgt[CHOOSE r \in 1..NRows(mat) :
                              /\ mat.rows[r][cc] = v
                              /\ \A o \in 1..(r - 1) : mat.rows[o][cc] # v]),
                 WeightOfValues(mat, wgt, cc)),
            q)

\* the estimate reported under the name of column cc and quantile q
Reported(est, cc, q) ==
    est.estimates[CHOOSE k \in 1..Len(est.parameter_names) :
                      est.parameter_names[k]
                          = "quantile_x" \o ToString(cc) \o "_" \o F64ToString(q)]

\* the value the statement expects for a case: the previous distinct value,
\* and, when raised is set, the first exceeding value itself where the
\* raised percentile stays within q
LowerExpected(mat, wgt, cc, q, raised) ==
    IF raised /\ RaisedWithin(mat, wgt, cc, FirstExceeding(mat, wgt, cc, q), q)
    THEN FirstExceeding(mat, wgt, cc, q)
    ELSE PreviousDistinct(mat, cc, FirstExceeding(mat, wgt, cc, q))

\* the columns and configured quantiles of an evaluation for which a value
\* exceeds the quantile
LowerCases(mat, wgt) ==
    {c \in (1..mat.ncols) \X {ConfiguredQuantiles[k] : k \in 1..Len(ConfiguredQuantiles)} :
        Exceeding(mat, wgt, c[1], c[2]) # {}}

\* the evaluation est of the closure on mat and wgt reports the expected
\* value for every such case
LowerReported(est, mat, wgt, raised) ==
    ~est.panicked
    => \A c \in LowerCases(mat, wgt) :
           Reported(est, c[1], c[2]) = LowerExpected(mat, wgt, c[1], c[2], raised)

\* every evaluation of the call, point and replicate, reports the expected
\* values
LowerReportedAll(raised) ==
    \A i \in 1..Len(x) :
        \A e \in 1..(1 + task_repweights(replicate_wgts, i).ncols) :
            LowerReported(apply(estimator, x[i], EvaluationWeight(i, e)),
                          x[i], EvaluationWeight(i, e), raised)

\* C24 as stated: in Lower mode, for every column and every configured q,
\* the quantile reported is the distinct value immediately before the first
\* value (in ascending order) at which the cumulative-weight percentile
\* exceeds q, or that value itself when it is the smallest distinct value.
C24_LowerPrevious == (KernelEnded /\ LowerBound) => LowerReportedAll(FALSE)

\* C24 amended: in Lower mode, for every column and every configured q, the
\* quantile reported is the first value (in ascending order) at which the
\* cumulative-weight percentile exceeds q when that value is the smallest
\* distinct value or when the percentile of the weight before it raised by
\* the weight of its first occurrence does not exceed q, and the distinct
\* value immediately before it otherwise.
C24_LowerRaised == (KernelEnded /\ LowerBound) => LowerReportedAll(TRUE)

\* the evaluation reports the exceeding value itself, which is not the
\* smallest, for one quantile and the previous distinct value for another
LowerBothWays(est, mat, wgt) ==
    /\ ~est.panicked
    /\ \E c \in LowerCases(mat, wgt) :
           /\ Reported(est, c[1], c[2]) = FirstExceeding(mat, wgt, c[1], c[2])
           /\ PreviousDistinct(mat, c[1], FirstExceeding(mat, wgt, c[1], c[2]))
                  # FirstExceeding(mat, wgt, c[1], c[2])
    /\ \E c \in LowerCases(mat, wgt) :
           Reported(est, c[1], c[2]) # FirstExceeding(mat, wgt, c[1], c[2])

\* a Lower-mode call has returned with such a point evaluation
C24_Witness ==
    /\ main_pc = "returned" /\ LowerBound
    /\ LowerBothWays(apply(estimator, x[1], task_weight(weights, 1)),
                     x[1], task_weight(weights, 1))

\* ------------------------------------------------------------------------
\* Reproducibility of calculate() (Spec)
\* ------------------------------------------------------------------------

\* the builders that calculate() turns into the builder at hand: the
\* builder itself, and it with the weights or the replicate weights unset
\* when the call filled them in
BeforeCalculate ==
    {before \in {analysis1,
                 [analysis1 EXCEPT !.wgt = NoneList],
                 [analysis1 EXCEPT !.repwgts = NoneMatrix],
                 [analysis1 EXCEPT !.wgt = NoneList, !.repwgts = NoneMatrix]} :
        calculate_self(before) = analysis1}

nan_rows(data) ==
    {rr \in 1..NRows(data) : \E c \in 1..data.ncols : IsNaN(data.rows[rr][c])}

\* a matrix with the given rows filled with 0.0
fill_rows(mat, rows) ==
    [mat EXCEPT !.rows = [rr \in 1..NRows(mat) |->
                             IF rr \in rows THEN Zeros(mat.ncols) ELSE mat.rows[rr]]]

\* listwise_delete that leaves the replicate weights as they are
listwise_delete_weights_only(data, weight, repweights) ==
    IF \/ NRows(data) # Len(weight)
       \/ NRows(repweights) > 0 /\ NRows(data) # NRows(repweights)
    THEN [panicked |-> TRUE, x |-> data, weight |-> weight, repweights |-> repweights]
    ELSE [panicked |-> FALSE,
          x |-> fill_rows(data, nan_rows(data)),
          weight |-> [rr \in 1..Len(weight) |->
                         IF rr \in nan_rows(data) THEN R(0) ELSE weight[rr]],
          repweights |-> repweights]

\* listwise_delete on the three buffers it is given: the buffers after the
\* call, or the panic of one of its two assert_eq!
listwise_delete(data, weight, repweights) ==
    IF \/ NRows(data) # Len(weight)
       \/ NRows(repweights) > 0 /\ NRows(data) # NRows(repweights)
    THEN [panicked |-> TRUE, x |-> data, weight |-> weight, repweights |-> repweights]
    ELSE [panicked |-> FALSE,
          x |-> fill_rows(data, nan_rows(data)),
          weight |-> [rr \in 1..Len(weight) |->
                         IF rr \in nan_rows(data) THEN R(0) ELSE weight[rr]],
          repweights |-> IF NRows(repweights) > 0
                         THEN fill_rows(repweights, nan_rows(data))
                         ELSE repweights]

\* a pre-processor run in place: with shared weights, the task of an
\* imputation finds them as the tasks of the imputations before it left them
RECURSIVE pre_processed_in_place(_, _, _, _)
pre_processed_in_place(imputation, data, weight, repweights) ==
    IF imputation = 1
    THEN listwise_delete(data[1], task_weight(weight, 1), task_repweights(repweights, 1))
    ELSE listwise_delete(
             data[imputation],
             IF Len(weight) > 1 THEN weight[imputation]
             ELSE pre_processed_in_place(imputation - 1, data, weight, repweights).weight,
             IF Len(repweights) > 1 THEN repweights[imputation]
             ELSE pre_processed_in_place(imputation - 1, data, weight,
                                         repweights).repweights)

\* what the task of an imputation works on when a pre-processor is given:
\* the pre-processor applied to an owned clone of the task's three inputs
pre_processed(imputation, data, weight, repweights) ==
    listwise_delete(data[imputation], task_weight(weight, imputation),
                    task_repweights(repweights, imputation))

PrepareData ==
    {Mat(2, <<<<R(1), R(2)>>, <<R(3), R(6)>>>>),
     Mat(2, <<<<R(1), NaN>>, <<R(3), R(6)>>>>),
     Mat(2, <<<<R(1), R(2)>>, <<NaN, NaN>>>>),
     Mat(2, <<<<R(1), R(2)>>, <<R(3), R(6)>>, <<NaN, R(1)>>>>)}

PrepareWeights ==
    {<<<<R(1), R(2)>>>>, [i \in 1..MaxImp |-> <<R(i), R(2)>>]}

PrepareRepWeights ==
    {<<Mat(0, <<>>)>>, <<Mat(0, <<<<>>, <<>>>>)>>, <<Col1(<<R(2), R(1)>>)>>,
     <<Col1(<<R(2), R(1), R(1)>>)>>}

PrepareInit ==
    /\ CopyIdle
    /\ analysis1 = analysis
    /\ returned = NoCall
    /\ ServerIdle
    /\ estimator = "mean"
    /\ x \in [1..MaxImp -> PrepareData]
    /\ weights \in PrepareWeights
    /\ replicate_wgts \in PrepareRepWeights
    /\ factor = R(1)
    /\ main_pc = "scope"
    /\ tasks = [i \in 1..MaxImp |-> [pc |-> "spawned"]]
    /\ channel = <<>>
    /\ collector = collector_init
    /\ result = NoEstimates
    /\ evaluated = {}
    /\ sent_order = <<>>

\* the task of imputation i clones its inputs and runs the pre-processor
TaskPrepare(i) ==
    /\ main_pc = "scope"
    /\ i \in DOMAIN tasks
    /\ tasks[i].pc = "spawned"
    /\ tasks' = [tasks EXCEPT ![i] =
                    [pc |-> "prepared"] @@ pre_processed(i, x, weights, replicate_wgts)]
    /\ UNCHANGED <<copyVars, builderVars, serverVars, engineInputs, main_pc, channel,
                   collector, result, evaluated, sent_order>>

\* the tasks estimate on what they prepared, and the call ends
PrepareReplicate ==
    /\ main_pc = "scope"
    /\ \A i \in DOMAIN tasks : tasks[i].pc = "prepared"
    /\ \E order \in Orders(Len(tasks)) :
           result' = scope_outcome(
                         [i \in DOMAIN tasks |->
                             IF tasks[i].panicked
                             THEN [panicked |-> TRUE, message |-> <<>>]
                             ELSE task_run(estimator, tasks[i].x, tasks[i].weight,
                                           tasks[i].repweights, factor)],
                         order)
    /\ main_pc' = IF result'.panicked THEN "panicked" ELSE "returned"
    /\ evaluated' = {[imputation |-> i, x |-> tasks[i].x, wgt |-> tasks[i].weight] :
                        i \in {t \in DOMAIN tasks : ~tasks[t].panicked}}
    /\ UNCHANGED <<copyVars, builderVars, serverVars, engineInputs, tasks, channel,
                   collector, sent_order>>

PrepareNext ==
    \/ \E i \in 1..MaxImp : TaskPrepare(i)
    \/ PrepareReplicate

SpecPrepare == PrepareInit /\ [][PrepareNext]_vars

\* the tasks that have run the pre-processor
PreProcessed == {i \in DOMAIN tasks : tasks[i].pc = "prepared"}

\* C22: listwise_delete on (X, w, W_rep) with equal row counts sets, for
\* exactly the rows of X that hold a NaN, the row of X, the weight of the
\* row and, when W_rep has rows, the row of W_rep to 0; every other row of
\* X, w and W_rep is left as it was, and no dimension changes.
C22_ListwiseDelete ==
    \A i \in PreProcessed :
        (/\ NRows(x[i]) = Len(task_weight(weights, i))
         /\ NRows(task_repweights(replicate_wgts, i)) \in {0, NRows(x[i])})
        => /\ ~tasks[i].panicked
           /\ tasks[i].x.ncols = x[i].ncols
           /\ NRows(tasks[i].x) = NRows(x[i])
           /\ Len(tasks[i].weight) = Len(task_weight(weights, i))
           /\ tasks[i].repweights.ncols = task_repweights(replicate_wgts, i).ncols
           /\ NRows(tasks[i].repweights) = NRows(task_repweights(replicate_wgts, i))
           /\ \A rr \in 1..NRows(x[i]) :
                  IF \E c \in 1..x[i].ncols : IsNaN(x[i].rows[rr][c])
                  THEN /\ \A c \in 1..x[i].ncols : tasks[i].x.rows[rr][c] = R(0)
                       /\ tasks[i].weight[rr] = R(0)
                       /\ NRows(tasks[i].repweights) > 0
                          => \A c \in 1..tasks[i].repweights.ncols :
                                 tasks[i].repweights.rows[rr][c] = R(0)
                  ELSE /\ tasks[i].x.rows[rr] = x[i].rows[rr]
                       /\ tasks[i].weight[rr] = task_weight(weights, i)[rr]
                       /\ NRows(tasks[i].repweights) > 0
                          => tasks[i].repweights.rows[rr]
                                 = task_repweights(replicate_wgts, i).rows[rr]

\* two imputations prepared with a column of replicate weights: a row
\* neutralized in one, none in the other
C22_Witness ==
    /\ PreProcessed = DOMAIN tasks
    /\ x[1] = Mat(2, <<<<R(1), NaN>>, <<R(3), R(6)>>>>)
    /\ x[2] = Mat(2, <<<<R(1), R(2)>>, <<R(3), R(6)>>>>)
    /\ replicate_wgts = <<Col1(<<R(2), R(1)>>)>>
    /\ tasks[1].repweights = Col1(<<R(0), R(1)>>)
    /\ tasks[1].weight[1] = R(0)
    /\ tasks[2].repweights = Col1(<<R(2), R(1)>>)

\* C23: with a pre-processor, the task of each imputation applies it to
\* its own clone of (X_i, w_i, W_rep,i).  The caller's matrices and vectors
\* are the same after the call as before, and what a task works on, and
\* hands to the estimator, is the pre-processor's outcome on the caller's
\* inputs of its own imputation, whatever rows the tasks of the other
\* imputations neutralized in weights or replicate weights they share.
C23_OwnedClones ==
    /\ [](\A i \in PreProcessed :
              /\ [f \in {"panicked", "x", "weight", "repweights"} |-> tasks[i][f]]
                     = listwise_delete(x[i], task_weight(weights, i),
                                       task_repweights(replicate_wgts, i))
              /\ main_pc = "returned"
                 => [imputation |-> i, x |-> tasks[i].x, wgt |-> tasks[i].weight]
                        \in evaluated)
    /\ [][engineInputs' = engineInputs]_vars

\* a returned call with shared weights and replicate weights whose two
\* imputations have their NaN in different rows
C23_Witness ==
    /\ main_pc = "returned"
    /\ Len(weights) = 1 /\ replicate_wgts = <<Col1(<<R(2), R(1)>>)>>
    /\ x[1] = Mat(2, <<<<R(1), NaN>>, <<R(3), R(6)>>>>)
    /\ x[2] = Mat(2, <<<<R(1), R(2)>>, <<NaN, NaN>>>>)
    /\ tasks[1].weight = <<R(0), R(2)>> /\ tasks[2].weight = <<R(1), R(0)>>
    /\ tasks[1].repweights = Col1(<<R(0), R(1)>>)
    /\ tasks[2].repweights = Col1(<<R(2), R(0)>>)

\* ------------------------------------------------------------------------
\* The data channel of the server: u8_to_f64_vec (SpecBytes).  An f64 is
\* held here as its 64 bits, the most significant byte first
\* ------------------------------------------------------------------------

Reverse(bytes) == [k \in 1..Len(bytes) |-> bytes[Len(bytes) + 1 - k]]

\* f64::from_be_bytes / f64::from_le_bytes, chosen by cfg!(target_endian)
from_ne_bytes(bytes, target_endian) ==
    IF target_endian = "big" THEN bytes ELSE Reverse(bytes)

\* f64::to_ne_bytes
to_ne_bytes(bits, target_endian) ==
    IF target_endian = "big" THEN bits ELSE Reverse(bits)

\* f64::is_nan: the exponent all ones and a mantissa other than zero
is_nan(bits) ==
    /\ bits[1] % 128 = 127 /\ bits[2] >= 240
    /\ (bits[2] # 240 \/ \E k \in 3..8 : bits[k] # 0)

DataLengthError ==
    [ok |-> FALSE, panicked |-> FALSE, data |-> <<>>,
     error |-> "Length of data was not a multiple of 8 * columns"]

\* the panic of the remainder operator on a divisor of zero
RemainderPanic ==
    [ok |-> FALSE, panicked |-> TRUE, data |-> <<>>,
     error |-> "attempt to calculate the remainder with a divisor of zero"]

u8_to_f64_vec_by_value(u8_data, columns, target_endian) ==
    IF Len(u8_data) % 8 # 0 THEN DataLengthError
    ELSE [ok |-> TRUE, panicked |-> FALSE, error |-> "",
          data |-> [i \in 1..(Len(u8_data) \div 8) |->
                       from_ne_bytes(SubSeq(u8_data, (i - 1) * 8 + 1, i * 8),
                                     target_endian)]]

u8_to_f64_vec(u8_data, columns, target_endian) ==
    IF 8 * columns = 0 THEN RemainderPanic
    ELSE IF Len(u8_data) % (8 * columns) # 0 THEN DataLengthError
    ELSE [ok |-> TRUE, panicked |-> FALSE, error |-> "",
          data |-> [i \in 1..(columns * (Len(u8_data) \div (8 * columns))) |->
                       from_ne_bytes(SubSeq(u8_data, (i - 1) * 8 + 1, i * 8),
                                     target_endian)]]

\* Vec::from(bytes.as_flattened()) of the values' native bytes
flattened(values, target_endian) ==
    Concat([i \in 1..Len(values) |-> to_ne_bytes(values[i], target_endian)])

\* 1.5, 2.0, -3.2, a NaN, and the bits 61 62 63 61 62 63 61 62 (hex)
F64Bits ==
    {<<63, 248, 0, 0, 0, 0, 0, 0>>, <<64, 0, 0, 0, 0, 0, 0, 0>>,
     <<192, 9, 153, 153, 153, 153, 153, 154>>, <<127, 248, 0, 0, 0, 0, 0, 0>>,
     <<97, 98, 99, 97, 98, 99, 97, 98>>}

\* bytes that follow the last whole value of a buffer
Tails == {SubSeq(<<97, 98, 99, 100, 101, 97, 98>>, 1, n) : n \in 0..7}

\* a buffer has been read from the data socket; it is about to be decoded
BytesInit ==
    /\ CopyIdle
    /\ analysis1 = analysis
    /\ returned = NoCall
    /\ EngineIdle
    /\ current_analysis = analysis
    /\ server_pc = "buffer"
    /\ \E values \in Lists(F64Bits, MaxValues), tail \in Tails,
          columns \in 1..MaxColumns, target_endian \in {"little", "big"} :
           message = [u8_data |-> flattened(values, target_endian) \o tail,
                      columns |-> columns, target_endian |-> target_endian]
    /\ replies = <<>>
    /\ data_socket = <<>>

Decode ==
    /\ server_pc = "buffer"
    /\ replies' = <<u8_to_f64_vec(message.u8_data, message.columns,
                                  message.target_endian)>>
    /\ server_pc' = "decoded"
    /\ UNCHANGED <<copyVars, builderVars, engineVars, current_analysis, message,
                   data_socket>>

BytesNext == Decode

SpecBytes == BytesInit /\ [][BytesNext]_vars

\* C25: for n_cols >= 1, u8_to_f64_vec(bytes, n_cols) returns the
\* DataLength error if and only if len(bytes) is not a multiple of 8 * n_cols;
\* otherwise it returns exactly len(bytes) / 8 values, value i decoded from
\* the bytes 8i..8i+7 in native byte order, so that encoding then decoding is
\* the identity (NaN stays NaN).
C25_Decoded ==
    server_pc = "decoded"
    => /\ replies[1] = DataLengthError
          <=> \A rows \in 0..(MaxValues + 1) :
                  Len(message.u8_data) # rows * 8 * message.columns
       /\ replies[1] # DataLengthError
          => /\ replies[1].ok
             /\ Len(replies[1].data) * 8 = Len(message.u8_data)
             /\ \A i \in 0..(Len(replies[1].data) - 1) : \A b \in 0..7 :
                    replies[1].data[i + 1]
                            [IF message.target_endian = "big" THEN b + 1 ELSE 8 - b]
                        = message.u8_data[8 * i + b + 1]
             /\ \A values \in Lists(F64Bits, MaxValues) :
                    flattened(values, message.target_endian) = message.u8_data
                    => /\ replies[1].data = values
                       /\ \A i \in 1..Len(values) :
                              is_nan(values[i]) <=> is_nan(replies[1].data[i])

\* several values with a NaN among them were encoded and decoded on a
\* little-endian target, for a number of columns that divides their number
C25_Witness ==
    /\ server_pc = "decoded" /\ replies[1].ok
    /\ message.target_endian = "little" /\ message.columns = 2
    /\ Len(replies[1].data) = 2
    /\ is_nan(replies[1].data[2]) /\ ~is_nan(replies[1].data[1])
    /\ replies[1].data[1] # Reverse(replies[1].data[1])

\* a buffer of whole values whose number the columns do not divide
C25_WitnessError ==
    /\ server_pc = "decoded" /\ replies[1] = DataLengthError
    /\ Len(message.u8_data) = 8 /\ message.columns = 2

\* ------------------------------------------------------------------------
\* SpecOptions: a client program that selects estimators and sets options
\* on one builder
\* ------------------------------------------------------------------------

\* the lists handed to set_quantiles
QuantileArguments == QuantileLists \cup {<<>>}

OptionsInit ==
    /\ CopyIdle
    /\ analysis1 = analysis
    /\ returned = NoCall
    /\ EngineIdle
    /\ ServerIdle

SelectEstimator ==
    /\ ~Aborted
    /\ analysis1' \in {select_mean(analysis1), linreg(analysis1),
                       select_quantiles(analysis1)}
    /\ returned' = NoCall
    /\ UNCHANGED <<engineVars, serverVars, copyVars>>

WithIntercept ==
    /\ ~Aborted
    /\ \E intercept \in BOOLEAN : analysis1' = with_intercept(analysis1, intercept)
    /\ returned' = NoCall
    /\ UNCHANGED <<engineVars, serverVars, copyVars>>

SetQuantiles ==
    /\ ~Aborted
    /\ \E quantiles0 \in QuantileArguments :
           analysis1' = set_quantiles(analysis1, quantiles0)
    /\ returned' = IF select_quantiles_panics(analysis1')
                   THEN Calculated("panic", NoError, <<>>, {}) ELSE NoCall
    /\ UNCHANGED <<engineVars, serverVars, copyVars>>

SetQuantileType ==
    /\ ~Aborted
    /\ \E quantile_type \in QuantileTypes :
           analysis1' = set_quantile_type(analysis1, quantile_type)
    /\ returned' = NoCall
    /\ UNCHANGED <<engineVars, serverVars, copyVars>>

OptionsNext ==
    \/ SelectEstimator
    \/ WithIntercept
    \/ SetQuantiles
    \/ SetQuantileType

SpecOptions == OptionsInit /\ [][OptionsNext]_vars

\* the builder `after` has the option recorded on top of those of `before`,
\* the estimator of that name selected, and nothing else changed
Recorded(before, after, key, value, name) ==
    /\ DOMAIN after.options = DOMAIN before.options \cup {key}
    /\ after.options[key] = value
    /\ \A k \in DOMAIN before.options \ {key} : after.options[k] = before.options[k]
    /\ after.estimate_name = Some(name)
    /\ after.estimate.some
    /\ [after EXCEPT !.options = <<>>, !.estimate_name = NoneString,
                     !.estimate = NoneString]
           = [before EXCEPT !.options = <<>>, !.estimate_name = NoneString,
                            !.estimate = NoneString]

\* the text to_string and join give for the lists handed to set_quantiles
QuantilesText(quantiles0) ==
    IF quantiles0 = <<>> THEN ""
    ELSE IF quantiles0 = <<<<3, 4>>, <<1, 4>>>> THEN "0.75,0.25"
    ELSE "0.25,0.5,0.75"

\* the setters applied to the builder the program has reached
SettersRecord(arguments) ==
    /\ \A intercept \in BOOLEAN :
           /\ Recorded(analysis1, with_intercept(analysis1, intercept), "intercept",
                       IF intercept THEN "true" ELSE "false", "linreg")
           /\ with_intercept(analysis1, intercept).estimate.value
                  = "linreg_with_options(" \o (IF intercept THEN "true" ELSE "false") \o ")"
    /\ \A quantiles0 \in arguments :
           /\ ~select_quantiles_panics(set_quantiles(analysis1, quantiles0))
           /\ Recorded(analysis1, set_quantiles(analysis1, quantiles0),
                       "quantiles", QuantilesText(quantiles0), "quantiles")
           /\ set_quantiles(analysis1, quantiles0).estimate.value
                  = "quantiles_with_options(" \o QuantilesText(quantiles0) \o ";"
                        \o (IF "quantile_type" \in DOMAIN analysis1.options
                            THEN analysis1.options["quantile_type"]
                            ELSE "Interpolation") \o ")"
    /\ \A quantile_type \in QuantileTypes :
           /\ Recorded(analysis1, set_quantile_type(analysis1, quantile_type),
                       "quantile_type", quantile_type, "quantiles")
           /\ set_quantile_type(analysis1, quantile_type).estimate.value
                  = "quantiles_with_options("
                        \o (IF "quantiles" \in DOMAIN analysis1.options
                            THEN analysis1.options["quantiles"]
                            ELSE "0.25,0.5,0.75") \o ";" \o quantile_type \o ")"

\* C30 as stated: with_intercept(b) records the intercept option and makes
\* linreg the selected estimator, whatever estimator (or none) was selected
\* before; set_quantiles(list) and set_quantile_type(t) record their option
\* and make quantiles the selected estimator, whatever was selected before.
C30_SettersSelect == ~Aborted => SettersRecord(QuantileArguments)

\* C30 amended: with_intercept(b) records the intercept option and makes
\* linreg the selected estimator, whatever estimator (or none) was selected
\* before; set_quantiles(list) with a list that is not empty and
\* set_quantile_type(t) record their option and make quantiles the selected
\* estimator, whatever was selected before.
C30_SettersSelectNonEmpty == ~Aborted => SettersRecord(QuantileLists)

\* with_intercept(false) has acted on a builder that had quantiles selected
\* through set_quantiles and set_quantile_type
C30_Witness ==
    /\ ~Aborted
    /\ analysis1.estimate_name = Some("linreg")
    /\ analysis1.estimate = Some(bind_linreg(FALSE))
    /\ DOMAIN analysis1.options = {"intercept", "quantiles", "quantile_type"}
    /\ analysis1.options["intercept"] = "false"

\* set_quantile_type has acted on a builder that had linreg selected
C30_WitnessQuantiles ==
    /\ ~Aborted
    /\ analysis1.estimate_name = Some("quantiles")
    /\ analysis1.estimate = Some(bind_quantiles(<<<<3, 4>>, <<1, 4>>>>, "Upper"))
    /\ "intercept" \in DOMAIN analysis1.options

\* ------------------------------------------------------------------------
\* SpecVariance: one call of calc_replication_variance, as a task makes it
\* for its point estimates and its replicated estimates (replication.rs:72)
\* or the calling thread for the imputation variance (replication.rs:97);
\* both hand over at least one column, of the length of the estimates
\* ------------------------------------------------------------------------

Infinity == <<1, 0>>

VarianceValues == {NaN, R(1), R(3), Infinity}

VarianceFactors == {R(1), R(0), NaN, Infinity}

VarianceInit ==
    /\ CopyIdle
    /\ analysis1 = analysis
    /\ returned = NoCall
    /\ ServerIdle
    /\ estimator = "mean"
    /\ x = <<>> /\ weights = <<>> /\ replicate_wgts = <<>>
    /\ factor \in VarianceFactors
    /\ main_pc = "variance"
    /\ \E estimates \in [1..2 -> VarianceValues], ncols \in 1..MaxReplicates :
           \E replicated_estimates \in [1..ncols -> [1..2 -> VarianceValues]] :
               tasks = <<[estimates |-> estimates,
                          replicated_estimates |-> replicated_estimates]>>
    /\ channel = <<>>
    /\ collector = collector_init
    /\ result = NoEstimates
    /\ evaluated = {}
    /\ sent_order = <<>>

VarianceCall ==
    /\ main_pc = "variance"
    /\ result' = calc_replication_variance_call(tasks[1].estimates,
                                                tasks[1].replicated_estimates, factor)
    /\ main_pc' = IF result'.panicked THEN "panicked" ELSE "returned"
    /\ UNCHANGED <<copyVars, builderVars, serverVars, engineInputs, tasks, channel,
                   collector, evaluated, sent_order>>

VarianceNext == VarianceCall

SpecVariance == VarianceInit /\ [][VarianceNext]_vars

IsFinite(a) == a[2] # 0

\* the inputs of row k: the point estimate and the replicated estimates of
\* the row
RowInputs(k) ==
    {tasks[1].estimates[k]}
        \cup {tasks[1].replicated_estimates[c][k] :
                 c \in 1..Len(tasks[1].replicated_estimates)}

\* C29: calc_replication_variance returns NaN at index k whenever the point
\* estimate at k is NaN or any replicated estimate in row k is NaN (one NaN
\* replicate among non-NaN ones suffices), and a non-NaN value at k when all
\* inputs of row k, the factor being one of them, are finite; a NaN entry
\* never makes the call fail.
C29_NaNPropagation ==
    main_pc \in {"returned", "panicked"}
    => /\ main_pc = "returned" /\ ~result.panicked
       /\ Len(result.variances) = Len(tasks[1].estimates)
       /\ \A k \in 1..Len(tasks[1].estimates) :
              /\ NaN \in RowInputs(k) => IsNaN(result.variances[k])
              /\ ((\A v \in RowInputs(k) : IsFinite(v)) /\ IsFinite(factor))
                 => ~IsNaN(result.variances[k])

\* a call has returned NaN for a row with one NaN replicate among finite
\* ones and a finite point estimate, and a number for the other row
C29_Witness ==
    /\ main_pc = "returned"
    /\ Len(tasks[1].replicated_estimates) = 2
    /\ tasks[1].estimates = <<R(1), R(1)>>
    /\ tasks[1].replicated_estimates = <<<<NaN, R(3)>>, <<R(3), R(1)>>>>
    /\ factor = R(1)
    /\ IsNaN(result.variances[1]) /\ result.variances[2] = R(4)


\* ------------------------------------------------------------------------
\* SpecSnapshot: a client program that selects estimators and sets options
\* on a builder and on one copy of it
\* ------------------------------------------------------------------------

SnapshotInit ==
    /\ analysis1 = analysis
    /\ returned = NoCall
    /\ EngineIdle
    /\ ServerIdle
    /\ analyses = <<>>
    /\ rcs = [h \in 1..MaxRc |-> NoRc]

\* builder 0 is the original, builder 1 its copy
SnapshotBuilders == {0} \cup DOMAIN analyses

SnapshotBuilder(b) == IF b = 0 THEN analysis1 ELSE analyses[b]

\* the call on builder b leaves the builder `after`
SnapshotCall(b, after) ==
    /\ analysis1' = IF b = 0 THEN after ELSE analysis1
    /\ analyses' = IF b = 0 THEN analyses ELSE [analyses EXCEPT ![b] = after]
    /\ UNCHANGED <<rcs, engineVars, serverVars>>

SnapshotSelect ==
    /\ ~Aborted
    /\ \E b \in SnapshotBuilders :
           \E after \in {select_mean(SnapshotBuilder(b)), linreg(SnapshotBuilder(b)),
                         select_quantiles(SnapshotBuilder(b))} :
               SnapshotCall(b, after)
    /\ returned' = NoCall

SnapshotWithIntercept ==
    /\ ~Aborted
    /\ \E b \in SnapshotBuilders, intercept \in BOOLEAN :
           SnapshotCall(b, with_intercept(SnapshotBuilder(b), intercept))
    /\ returned' = NoCall

SnapshotSetQuantiles ==
    /\ ~Aborted
    /\ \E b \in SnapshotBuilders, quantiles0 \in QuantileArguments :
           /\ SnapshotCall(b, set_quantiles(SnapshotBuilder(b), quantiles0))
           /\ returned' = IF quantiles0 = <<>>
                          THEN Calculated("panic", NoError, <<>>, {}) ELSE NoCall

SnapshotSetQuantileType ==
    /\ ~Aborted
    /\ \E b \in SnapshotBuilders, quantile_type \in QuantileTypes :
           SnapshotCall(b, set_quantile_type(SnapshotBuilder(b), quantile_type))
    /\ returned' = NoCall

SnapshotCopy ==
    /\ ~Aborted
    /\ analyses = <<>>
    /\ analyses' = <<copy(analysis1)>>
    /\ returned' = NoCall
    /\ UNCHANGED <<analysis1, rcs, engineVars, serverVars>>

SnapshotNext ==
    \/ SnapshotSelect
    \/ SnapshotWithIntercept
    \/ SnapshotSetQuantiles
    \/ SnapshotSetQuantileType
    \/ SnapshotCopy

SpecSnapshot == SnapshotInit /\ [][SnapshotNext]_vars


\* the option values recorded on a builder, the default where none is
RecordedIntercept(self) ==
    IF "intercept" \in DOMAIN self.options THEN self.options["intercept"] ELSE "true"

RecordedQuantiles(self) ==
    IF "quantiles" \in DOMAIN self.options
    THEN self.options["quantiles"] ELSE "0.25,0.5,0.75"

RecordedQuantileType(self) ==
    IF "quantile_type" \in DOMAIN self.options
    THEN self.options["quantile_type"] ELSE "Interpolation"

\* the estimator the builder has bound is the one of the recorded values
UsesRecorded(self) ==
    /\ self.estimate_name = Some("linreg")
       => self.estimate = Some("linreg_with_options(" \o RecordedIntercept(self) \o ")")
    /\ self.estimate_name = Some("quantiles")
       => self.estimate = Some("quantiles_with_options(" \o RecordedQuantiles(self)
                                   \o ";" \o RecordedQuantileType(self) \o ")")

\* C31: an estimator bound on a builder uses the option values recorded on
\* that builder when it was bound or bound again: linreg() the last value
\* given to with_intercept (true if none was given), quantiles() the last
\* set_quantiles list and quantile type (defaults 0.25, 0.5, 0.75 and
\* Interpolation), also when other estimators were selected in between; an
\* option change made afterwards on a copy does not change the estimator of
\* the original, and one made on the original does not change the estimator
\* of the copy.
C31_OptionSnapshot ==
    /\ [](~Aborted => \A b \in SnapshotBuilders : UsesRecorded(SnapshotBuilder(b)))
    /\ [][analyses # <<>>
          => /\ analyses'[1].options # analyses[1].options
                => analysis1'.estimate = analysis1.estimate
             /\ analysis1'.options # analysis1.options
                => analyses'[1].estimate = analyses[1].estimate]_vars

\* the original has linreg bound without intercept after quantile options
\* were set on it; its copy, taken from it, was then given the intercept
C31_Witness ==
    /\ ~Aborted /\ analyses # <<>>
    /\ DOMAIN analysis1.options = {"intercept", "quantiles", "quantile_type"}
    /\ analysis1.options["intercept"] = "false"
    /\ analysis1.estimate = Some(bind_linreg(FALSE))
    /\ DOMAIN analyses[1].options = {"intercept", "quantiles", "quantile_type"}
    /\ analyses[1].options["intercept"] = "true"
    /\ analyses[1].options["quantiles"] = analysis1.options["quantiles"]
    /\ analyses[1].estimate = Some(bind_linreg(TRUE))


\* ------------------------------------------------------------------------
\* Properties of the pairing of data and weights in the engine
\* ------------------------------------------------------------------------

\* the weights of imputation i: its own, or the single shared vector
OwnWeights(i) == IF Len(weights) = 1 THEN weights[1] ELSE weights[i]

\* the replicate weight vectors of imputation i: the columns of its own
\* matrix, or of the single shared one; none when no matrix was given
OwnReplicateWeights(i) ==
    IF Len(replicate_wgts) = 0 THEN {}
    ELSE IF Len(replicate_wgts) = 1
    THEN {Column(replicate_wgts[1], c) : c \in 1..replicate_wgts[1].ncols}
    ELSE {Column(replicate_wgts[i], c) : c \in 1..replicate_wgts[i].ncols}

\* C32: the task of imputation i evaluates the estimator only on X_i, with
\* the weights w_i (or the single shared w) and with the columns of
\* W_rep,i (or of the single shared W_rep); no task pairs the data of one
\* imputation with weights or replicate weights of another, under every
\* interleaving of the tasks.
C32_OwnInputs ==
    \A e \in evaluated :
        /\ e.imputation \in 1..Len(x)
        /\ e.x = x[e.imputation]
        /\ e.wgt \in {OwnWeights(e.imputation)} \cup OwnReplicateWeights(e.imputation)

\* two tasks with different data, weights and replicate weights have both
\* evaluated, the second one having sent while the first is still at its
\* replicates
C32_Witness ==
    /\ Len(x) = 2 /\ Len(weights) = 2 /\ Len(replicate_wgts) = 2
    /\ x[1] # x[2] /\ weights[1] # weights[2] /\ replicate_wgts[1] # replicate_wgts[2]
    /\ Len(tasks) = 2
    /\ tasks[1].pc = "replicate" /\ Len(tasks[1].replicated_estimates) = 1
    /\ tasks[2].pc = "finished"
    /\ \E e \in evaluated : e.imputation = 1 /\ e.wgt \in OwnReplicateWeights(1)
    /\ \E e \in evaluated : e.imputation = 2 /\ e.wgt \in OwnReplicateWeights(2)


\* ------------------------------------------------------------------------
\* SpecStream: the command loop of the server with the text of the
\* commands and the stream connections of the data socket.  A command is
\* held as its words, message.split(" "); a connection as the bytes its
\* client wrote before closing it; a cell of a received matrix as the 64
\* bits of its f64
\* ------------------------------------------------------------------------

MaxPending == 2

TargetEndian == "little"

\* str::parse::<usize>() and str::parse::<f64>() of the words clients send
parse_usize(word) ==
    CASE word = "0" -> [ok |-> TRUE, value |-> 0]
      [] word = "1" -> [ok |-> TRUE, value |-> 1]
      [] word = "2" -> [ok |-> TRUE, value |-> 2]
      [] OTHER -> [ok |-> FALSE, value |-> 0]

parse_f64(word) ==
    CASE word = "0.25" -> [ok |-> TRUE, value |-> <<1, 4>>]
      [] word = "0.5" -> [ok |-> TRUE, value |-> <<1, 2>>]
      [] word = "0.75" -> [ok |-> TRUE, value |-> <<3, 4>>]
      [] parse_usize(word).ok -> [ok |-> TRUE, value |-> R(parse_usize(word).value)]
      [] OTHER -> [ok |-> FALSE, value |-> NaN]

\* str::starts_with on the words: the words before the last word of the
\* prefix are equal, and the word at its place begins with it
word_starts_with(word, prefix) ==
    \/ word = prefix
    \/ <<word, prefix>> \in {<<"database", "data">>, <<"groupsize", "groups">>}

starts_with(words, prefix) ==
    /\ Len(words) >= Len(prefix)
    /\ \A k \in 1..(Len(prefix) - 1) : words[k] = prefix[k]
    /\ word_starts_with(words[Len(prefix)], prefix[Len(prefix)])

NoArguments == [some |-> FALSE, value |-> <<>>]

\* a parser that takes the column count as 1 when it is left out
parse_input_message_lenient(words) ==
    IF Len(words) = 2 /\ parse_usize(words[2]).ok
    THEN Some(<<parse_usize(words[2]).value, 1>>)
    ELSE IF Len(words) = 3 /\ parse_usize(words[2]).ok /\ parse_usize(words[3]).ok
    THEN Some(<<parse_usize(words[2]).value, parse_usize(words[3]).value>>)
    ELSE NoArguments

parse_input_message(words) ==
    IF Len(words) = 3 /\ parse_usize(words[2]).ok /\ parse_usize(words[3]).ok
    THEN Some(<<parse_usize(words[2]).value, parse_usize(words[3]).value>>)
    ELSE NoArguments

parse_replicate_weights_message(words) ==
    IF Len(words) = 3 /\ parse_usize(words[3]).ok
    THEN Some(parse_usize(words[3]).value) ELSE NoArguments

parse_set_variance_adjustment_factor_message(words) ==
    IF Len(words) = 5 /\ parse_f64(words[5]).ok
    THEN Some(parse_f64(words[5]).value) ELSE NoArguments

parse_set_quantiles_message(words) ==
    IF Len(words) < 3 THEN NoArguments
    ELSE IF \E k \in 3..Len(words) : ~parse_f64(words[k]).ok THEN NoArguments
    ELSE Some([k \in 1..(Len(words) - 2) |-> parse_f64(words[k + 2]).value])

parse_quantile_type_message(words) ==
    IF Len(words) = 3 /\ words[3] = "lower" THEN Some("Lower")
    ELSE IF Len(words) = 3 /\ words[3] = "interpolation" THEN Some("Interpolation")
    ELSE IF Len(words) = 3 /\ words[3] = "upper" THEN Some("Upper")
    ELSE NoArguments

parse_with_intercept_message(words) ==
    IF Len(words) = 3 /\ words[3] \in {"true", "false"}
    THEN Some(words[3] = "true") ELSE NoArguments

\* listen_for_data on an accepted connection: the bytes read to the end,
\* decoded and laid out by rows
listen_for_data(bytes, columns) ==
    LET decoded == u8_to_f64_vec(bytes, columns, TargetEndian)
    IN  IF ~decoded.ok
        THEN [ok |-> FALSE, panicked |-> decoded.panicked, error |-> decoded.error,
              matrix |-> empty_matrix]
        ELSE [ok |-> TRUE, panicked |-> FALSE, error |-> "",
              matrix |-> Mat(columns,
                             [r \in 1..(Len(decoded.data) \div columns) |->
                                 [c \in 1..columns |->
                                     decoded.data[(r - 1) * columns + c]]])]


\* what the loop has after a command: the builder, the replies to send, the
\* connections still pending; blocked when accept() found no connection
StreamHandled(self, responses, queue) ==
    [analysis |-> self, panicked |-> FALSE, blocked |-> FALSE,
     responses |-> responses, queue |-> queue]

StreamPanicked(self, queue) ==
    [analysis |-> self, panicked |-> TRUE, blocked |-> FALSE,
     responses |-> <<>>, queue |-> queue]

StreamBlocked(self, queue) ==
    [analysis |-> self, panicked |-> FALSE, blocked |-> TRUE,
     responses |-> <<>>, queue |-> queue]

\* main: Err(err) of handle_message is sent as "error: {err}"
StreamError(self, error, queue) ==
    StreamHandled(self, <<Text("error: " \o error)>>, queue)

\* for _ in 0..number_imputations { input.push(listen_for_data(..)?) }
RECURSIVE listen_for_inputs(_, _, _, _)

listen_pushed(one, queue, number, columns, input) ==
    IF ~one.ok
    THEN [ok |-> FALSE, panicked |-> one.panicked, blocked |-> FALSE,
          error |-> one.error, input |-> input, queue |-> Tail(queue)]
    ELSE listen_for_inputs(Tail(queue), number - 1, columns, Append(input, one.matrix))

listen_for_inputs(queue, number, columns, input) ==
    IF number = 0
    THEN [ok |-> TRUE, panicked |-> FALSE, blocked |-> FALSE, error |-> "",
          input |-> input, queue |-> queue]
    ELSE IF queue = <<>>
    THEN [ok |-> FALSE, panicked |-> FALSE, blocked |-> TRUE, error |-> "",
          input |-> input, queue |-> queue]
    ELSE listen_pushed(listen_for_data(Head(queue), columns), queue, number,
                       columns, input)

\* a handler that hands over the imputations read before the failing one
input_received_partial(mode, self, listened) ==
    IF listened.panicked THEN StreamPanicked(self, listened.queue)
    ELSE IF listened.blocked THEN StreamBlocked(self, listened.queue)
    ELSE IF ~listened.ok
    THEN StreamError(IF listened.input = <<>> THEN self
                     ELSE IF mode = "Data"
                     THEN for_data(self, received_input(listened.input))
                     ELSE group_by(self, received_input(listened.input)),
                     listened.error, listened.queue)
    ELSE IF mode = "Data"
    THEN StreamHandled(for_data(self, received_input(listened.input)),
                       <<Text("received data")>>, listened.queue)
    ELSE StreamHandled(group_by(self, received_input(listened.input)),
                       <<Text("received groups")>>, listened.queue)

\* handle_input_message after its loop of listen_for_data calls
input_received(mode, self, listened) ==
    IF listened.panicked THEN StreamPanicked(self, listened.queue)
    ELSE IF listened.blocked THEN StreamBlocked(self, listened.queue)
    ELSE IF ~listened.ok THEN StreamError(self, listened.error, listened.queue)
    ELSE IF mode = "Data"
    THEN StreamHandled(for_data(self, received_input(listened.input)),
                       <<Text("received data")>>, listened.queue)
    ELSE StreamHandled(group_by(self, received_input(listened.input)),
                       <<Text("received groups")>>, listened.queue)

input_arguments(mode, self, arguments, queue) ==
    IF ~arguments.some
    THEN StreamHandled(self,
             <<Text(IF mode = "Data"
                    THEN "bad request - usage: data <number_imputations> <number_columns>"
                    ELSE "bad request - usage: groups <number_imputations> <number_columns>")>>,
             queue)
    ELSE input_received(mode, self,
             listen_for_inputs(queue, arguments.value[1], arguments.value[2], <<>>))

handle_input_message(mode, words, self, queue) ==
    input_arguments(mode, self, parse_input_message(words), queue)

weights_received(self, listened) ==
    IF listened.panicked THEN StreamPanicked(self, listened.queue)
    ELSE IF listened.blocked THEN StreamBlocked(self, listened.queue)
    ELSE IF ~listened.ok THEN StreamError(self, listened.error, listened.queue)
    ELSE StreamHandled(set_weights(self, Column(listened.input[1], 1)),
                       <<Text("received weights")>>, listened.queue)

handle_weights_message(self, queue) ==
    weights_received(self, listen_for_inputs(queue, 1, 1, <<>>))

replicate_weights_received(self, listened) ==
    IF listened.panicked THEN StreamPanicked(self, listened.queue)
    ELSE IF listened.blocked THEN StreamBlocked(self, listened.queue)
    ELSE IF ~listened.ok THEN StreamError(self, listened.error, listened.queue)
    ELSE StreamHandled(with_replicate_weights(self, listened.input[1]),
                       <<Text("received replicate weights")>>, listened.queue)

replicate_weights_arguments(self, arguments, queue) ==
    IF ~arguments.some
    THEN StreamHandled(self,
             <<Text("bad request - usage: replicate weights <number_columns>")>>, queue)
    ELSE replicate_weights_received(self,
             listen_for_inputs(queue, 1, arguments.value, <<>>))

handle_replicate_weights_message(words, self, queue) ==
    replicate_weights_arguments(self, parse_replicate_weights_message(words), queue)

set_variance_adjustment_factor_arguments(self, arguments) ==
    IF ~arguments.some
    THEN Handled(self,
             <<Text("bad request - usage: set variance adjustment factor <factor>")>>)
    ELSE Handled(set_variance_adjustment_factor(self, arguments.value),
                 <<Text("set variance adjustment factor")>>)

handle_set_variance_adjustment_factor_message(words, self) ==
    set_variance_adjustment_factor_arguments(self,
        parse_set_variance_adjustment_factor_message(words))

\* the builder methods frequencies() and correlation() select the kernel of
\* their name
handle_estimate_message(words, self) ==
    Handled(IF words = <<"mean">> THEN select_mean(self)
            ELSE IF words = <<"quantiles">> THEN select_quantiles(self)
            ELSE IF words = <<"linear", "regression">> THEN linreg(self)
            ELSE [self EXCEPT !.estimate_name = Some(words[1]),
                              !.estimate = Some(words[1])],
            <<Text("set analysis to "
                       \o (IF Len(words) = 2 THEN "linear regression" ELSE words[1]))>>)

set_quantiles_arguments(self, arguments) ==
    IF ~arguments.some
    THEN Handled(self,
             <<Text("bad request - usage: set quantiles <quantile1> <quantile2> ...")>>)
    ELSE Handled(set_quantiles(self, arguments.value),
                 <<Text("set quantiles as requested")>>)

handle_set_quantiles_message(words, self) ==
    set_quantiles_arguments(self, parse_set_quantiles_message(words))

quantile_type_arguments(self, arguments) ==
    IF ~arguments.some
    THEN Handled(self,
             <<Text("bad request - usage: quantile type <lower|interpolation|upper>")>>)
    ELSE Handled(set_quantile_type(self, arguments.value),
                 <<Text("quantile type set to " \o to_lowercase(arguments.value))>>)

handle_quantile_type_message(words, self) ==
    quantile_type_arguments(self, parse_quantile_type_message(words))

with_intercept_arguments(self, arguments) ==
    IF ~arguments.some
    THEN Handled(self, <<Text("bad request - usage: with intercept <true|false>")>>)
    ELSE Handled(with_intercept(self, arguments.value),
                 <<Text("with intercept set to "
                            \o (IF arguments.value THEN "true" ELSE "false"))>>)

handle_with_intercept_message(words, self) ==
    with_intercept_arguments(self, parse_with_intercept_message(words))

\* a handler that reads no stream leaves the pending connections alone
WithoutStream(handled, queue) ==
    StreamHandled(handled.analysis, handled.responses, queue)

\* handle_message: the first arm that matches, in the order of the match;
\* calculate is served by ServeCalculate and is not among the commands here
handle_message(words, self, queue) ==
    IF starts_with(words, <<"data">>) THEN handle_input_message("Data", words, self, queue)
    ELSE IF words = <<"weights">> THEN handle_weights_message(self, queue)
    ELSE IF starts_with(words, <<"replicate", "weights">>)
    THEN handle_replicate_weights_message(words, self, queue)
    ELSE IF starts_with(words, <<"set", "variance", "adjustment", "factor">>)
    THEN WithoutStream(handle_set_variance_adjustment_factor_message(words, self), queue)
    ELSE IF starts_with(words, <<"groups">>)
    THEN handle_input_message("Groups", words, self, queue)
    ELSE IF words \in {<<"frequencies">>, <<"quantiles">>, <<"mean">>, <<"correlation">>, <<"linear", "regression">>}
    THEN WithoutStream(handle_estimate_message(words, self), queue)
    ELSE IF starts_with(words, <<"set", "quantiles">>)
    THEN WithoutStream(handle_set_quantiles_message(words, self), queue)
    ELSE IF starts_with(words, <<"quantile", "type">>)
    THEN WithoutStream(handle_quantile_type_message(words, self), queue)
    ELSE IF starts_with(words, <<"with", "intercept">>)
    THEN WithoutStream(handle_with_intercept_message(words, self), queue)
    ELSE StreamHandled(self, <<Text("unknown")>>, queue)


\* the payloads clients write: 1.5; 2.0 and 1.5; three bytes
Payloads ==
    {flattened(<<<<63, 248, 0, 0, 0, 0, 0, 0>>>>, TargetEndian),
     flattened(<<<<64, 0, 0, 0, 0, 0, 0, 0>>, <<63, 248, 0, 0, 0, 0, 0, 0>>>>, TargetEndian),
     <<97, 98, 99>>}

\* the commands clients send that bear data, with and without fault
DataMessages ==
    {<<"data", "1", "1">>, <<"data", "2", "1">>, <<"data", "1", "0">>,
     <<"groups", "2", "1">>, <<"weights">>, <<"replicate", "weights", "2">>}

\* the commands clients send with malformed arguments, and the usage each is
\* to be answered with
BadRequests ==
    {<<<<"data", "2">>, "data <number_imputations> <number_columns>">>,
     <<<<"data", "x", "1">>, "data <number_imputations> <number_columns>">>,
     <<<<"groups", "1", "-1">>, "groups <number_imputations> <number_columns>">>,
     <<<<"replicate", "weights">>, "replicate weights <number_columns>">>,
     <<<<"replicate", "weights", "two">>, "replicate weights <number_columns>">>,
     <<<<"set", "variance", "adjustment", "factor">>, "set variance adjustment factor <factor>">>,
     <<<<"set", "variance", "adjustment", "factor", "x">>, "set variance adjustment factor <factor>">>,
     <<<<"set", "quantiles">>, "set quantiles <quantile1> <quantile2> ...">>,
     <<<<"set", "quantiles", "0.5", "x">>, "set quantiles <quantile1> <quantile2> ...">>,
     <<<<"quantile", "type">>, "quantile type <lower|interpolation|upper>">>,
     <<<<"quantile", "type", "median">>, "quantile type <lower|interpolation|upper>">>,
     <<<<"with", "intercept">>, "with intercept <true|false>">>,
     <<<<"with", "intercept", "yes">>, "with intercept <true|false>">>}

\* commands that are none of the server's
UnknownMessages == {<<"hello">>, <<"weights", "1">>, <<"means">>}

OptionMessages ==
    {<<"mean">>, <<"set", "quantiles", "0.75", "0.25">>, <<"with", "intercept", "false">>,
     <<"set", "variance", "adjustment", "factor", "0.5">>}

StreamMessages ==
    DataMessages \cup {<<"clear">>, <<"shutdown">>, <<"hello">>, <<"mean">>}

RequestMessages ==
    {bad[1] : bad \in BadRequests} \cup UnknownMessages \cup OptionMessages
        \cup {<<"data", "1", "1">>, <<"shutdown">>}

\* the number of payloads a command announces
Announced(words) ==
    IF words[1] \in {"data", "groups"} /\ Len(words) = 3 /\ parse_usize(words[2]).ok
    THEN parse_usize(words[2]).value
    ELSE IF words = <<"weights">> \/ starts_with(words, <<"replicate", "weights">>)
    THEN 1
    ELSE 0

\* the connections a client makes for its command: one for every payload
\* announced, when the arguments are well-formed; one or none behind a
\* command with malformed arguments
Connections(words) ==
    IF \E bad \in BadRequests : bad[1] = words
    THEN IF words[1] \in {"data", "groups", "replicate"} THEN {0, 1} ELSE {0}
    ELSE {Announced(words)}

StreamInit ==
    /\ CopyIdle
    /\ analysis1 = analysis
    /\ returned = NoCall
    /\ EngineIdle
    /\ current_analysis = analysis
    /\ server_pc = "serving"
    /\ message = <<>>
    /\ replies = <<>>
    /\ data_socket = <<>>

\* a client sends a command and makes the connections for its payloads
ClientSend(pool) ==
    /\ server_pc = "serving"
    /\ \E words \in pool :
           \E n \in Connections(words), sent \in Lists(Payloads, MaxPending) :
               /\ Len(sent) = n
               /\ Len(data_socket) + Len(sent) <= MaxPending
               /\ message' = words
               /\ data_socket' = data_socket \o sent
    /\ server_pc' = "received"
    /\ replies' = <<>>
    /\ UNCHANGED <<copyVars, builderVars, engineVars, current_analysis>>

\* what the loop does with the outcome of handle_message
Answered(handled) ==
    /\ current_analysis' = handled.analysis
    /\ replies' = handled.responses
    /\ data_socket' = handled.queue
    /\ server_pc' = IF handled.panicked THEN "panicked"
                    ELSE IF handled.blocked THEN "listening" ELSE "serving"

\* one iteration of the loop of main on the command received
RecvFrom ==
    /\ server_pc = "received"
    /\ IF message = <<"shutdown">>
       THEN /\ replies' = <<Text("shutting down")>>
            /\ server_pc' = "ended"
            /\ UNCHANGED <<current_analysis, data_socket>>
       ELSE IF message = <<"clear">>
       THEN Answered(StreamHandled(analysis, <<Text("cleared")>>, data_socket))
       ELSE Answered(handle_message(message, current_analysis, data_socket))
    /\ UNCHANGED <<copyVars, builderVars, engineVars, message>>

StreamNext ==
    \/ ClientSend(StreamMessages)
    \/ RecvFrom

SpecStream == StreamInit /\ [][StreamNext]_vars

RequestsNext ==
    \/ ClientSend(RequestMessages)
    \/ RecvFrom

SpecRequests == StreamInit /\ [][RequestsNext]_vars


\* ------------------------------------------------------------------------
\* Properties of the stream payloads and of the requests
\* ------------------------------------------------------------------------

\* the column count the command received gives for its payloads
PayloadColumns ==
    IF message = <<"weights">> THEN 1 ELSE parse_usize(message[3]).value

\* the command received bears data and the stream payload it reads, or one
\* of those it reads, fails the length check
FailsLengthCheck ==
    /\ server_pc = "received" /\ message \in DataMessages
    /\ PayloadColumns >= 1
    /\ \E k \in 1..Announced(message) :
           /\ k <= Len(data_socket)
           /\ Len(data_socket[k]) % (8 * PayloadColumns) # 0

\* C33: if the stream payload of a data, groups, weights or replicate
\* weights command fails the length check, the builder is left exactly as
\* it was before the command (also when earlier imputations of the same
\* command had been received correctly), the server sends one error reply,
\* and it goes on to serve the next command.
C33_LengthError ==
    [][FailsLengthCheck
       => /\ current_analysis' = current_analysis
          /\ replies' = <<Text("error: Length of data was not a multiple of 8 * columns")>>
          /\ server_pc' = "serving"]_vars

\* a data command of two imputations was answered with the error after its
\* two payloads had been read, on a builder that had data and weights, and
\* the builder has them still
C33_Witness ==
    /\ server_pc = "serving" /\ message = <<"data", "2", "1">>
    /\ replies = <<Text("error: Length of data was not a multiple of 8 * columns")>>
    /\ data_socket = <<>>
    /\ current_analysis.x.some /\ Len(current_analysis.x.value) = 1
    /\ current_analysis.wgt.some

\* C34: a command with malformed arguments (data, groups, replicate
\* weights, set variance adjustment factor, set quantiles, quantile type,
\* with intercept) is answered with a single "bad request - usage: ..."
\* reply and an unrecognized command with "unknown"; in both cases the
\* builder is unchanged, no stream connection is awaited (none is taken
\* from the pending ones), and the server keeps serving.
C34_BadRequest ==
    [][server_pc = "received"
       => /\ \A bad \in BadRequests :
                 message = bad[1]
                 => /\ replies' = <<Text("bad request - usage: " \o bad[2])>>
                    /\ current_analysis' = current_analysis
                    /\ data_socket' = data_socket
                    /\ server_pc' = "serving"
          /\ message \in UnknownMessages
             => /\ replies' = <<Text("unknown")>>
                /\ current_analysis' = current_analysis
                /\ data_socket' = data_socket
                /\ server_pc' = "serving"]_vars

\* a data command without its column count, sent with a connection, was
\* answered with the usage on a builder that had data and options
C34_Witness ==
    /\ server_pc = "serving" /\ message = <<"data", "2">>
    /\ replies = <<Text("bad request - usage: data <number_imputations> <number_columns>")>>
    /\ Len(data_socket) = 1
    /\ current_analysis.x.some
    /\ current_analysis.estimate_name = Some("linreg")
    /\ current_analysis.variance_adjustment_factor = <<1, 2>>

\* an unrecognized command was answered with "unknown"
C34_WitnessUnknown ==
    /\ server_pc = "serving" /\ message = <<"weights", "1">>
    /\ replies = <<Text("unknown")>>
    /\ current_analysis.x.some

\* C39: every stream connection made by a client for a data-bearing command
\* is consumed by that command only: after a data or groups command with
\* well-formed arguments ends, with success or with an error on one of its
\* payloads, no connection sent for it is left pending.
C39_NoneLeftPending ==
    [][(/\ server_pc = "received"
        /\ message[1] \in {"data", "groups"}
        /\ Len(data_socket) = Announced(message))
       => data_socket' = <<>>]_vars

\* the weights of the builder are the payload a client had sent as the
\* second imputation of a data command
C39_ReadByLaterCommand ==
    /\ server_pc = "serving" /\ message = <<"weights">>
    /\ replies = <<Text("received weights")>>
    /\ Len(data_socket) = 1
    /\ ~current_analysis.x.some

\* C40: u8_to_f64_vec is total: for every byte buffer and every column
\* count, n_cols = 0 included, it returns a vector or the DataLength error
\* and never aborts the server.
C40_NeverAborts == server_pc # "panicked"

\* the server has panicked on the payload of data 1 0
C40_Aborted ==
    /\ server_pc = "panicked" /\ message = <<"data", "1", "0">>
    /\ replies = <<>>


\* ------------------------------------------------------------------------
\* SpecSplit: one call of split_by on a matrix and on a vector, by a
\* grouping matrix.  The matrix is x[1], the vector weights[1], the grouping
\* matrix replicate_wgts[1]
\* ------------------------------------------------------------------------

MaxRows == 3

\* the rows a grouping matrix is made of, with one and with two columns
GroupingRows(ncols) ==
    IF ncols = 1 THEN {<<R(1)>>, <<R(2)>>, <<NaN>>}
    ELSE {<<R(1), R(1)>>, <<R(1), <<1, 2>>>>, <<NaN, R(1)>>}

SplitInit ==
    /\ CopyIdle
    /\ analysis1 = analysis
    /\ returned = NoCall
    /\ ServerIdle
    /\ estimator = "mean"
    /\ \E n \in 0..MaxRows, equal \in BOOLEAN :
           /\ x = <<Mat(2, [r \in 1..n |-> <<R(IF equal THEN 7 ELSE r), NaN>>])>>
           /\ weights = <<[r \in 1..n |-> R(IF equal THEN 7 ELSE r)]>>
    /\ \E ncols \in 1..2 :
           \E rows \in Lists(GroupingRows(ncols), MaxRows) :
               replicate_wgts = <<Mat(ncols, rows)>>
    /\ factor = R(1)
    /\ main_pc = "start"
    /\ tasks = <<>>
    /\ channel = <<>>
    /\ collector = collector_init
    /\ result = NoEstimates
    /\ evaluated = {}
    /\ sent_order = <<>>

\* x.split_by(&groups) and wgt.split_by(&groups)
SplitBy ==
    /\ main_pc = "start"
    /\ IF split_by_panics(NRows(x[1]), replicate_wgts[1])
       THEN /\ main_pc' = "panicked"
            /\ result' = [panicked |-> TRUE, matrix |-> <<>>, vector |-> <<>>]
       ELSE /\ main_pc' = "returned"
            /\ result' = [panicked |-> FALSE,
                          matrix |-> split_by(x[1], replicate_wgts[1]),
                          vector |-> split_by_vec(weights[1], replicate_wgts[1])]
    /\ UNCHANGED <<copyVars, builderVars, serverVars, engineInputs, tasks, channel,
                   collector, evaluated, sent_order>>

SplitNext == SplitBy

SpecSplit == SplitInit /\ [][SplitNext]_vars

\* the grouping tuple of row r, every cell rendered as text
GroupingTuple(r) ==
    [c \in 1..replicate_wgts[1].ncols |-> F64ToString(replicate_wgts[1].rows[r][c])]

\* the row indices of a grouping tuple, and the j-th of them in ascending
\* order
Members(key) == {r \in 1..NRows(replicate_wgts[1]) : GroupingTuple(r) = key}

Member(key, j) ==
    CHOOSE r \in Members(key) : Cardinality({q \in Members(key) : q < r}) = j - 1

RECURSIVE BucketSizes(_, _)
BucketSizes(split, keys) ==
    IF keys = {} THEN 0
    ELSE LET key == CHOOSE k \in keys : TRUE
         IN  NRows(split[key]) + BucketSizes(split, keys \ {key})

\* C35: split_by(G) on a matrix or vector with as many rows as G partitions
\* the rows: its key set is get_keys(G), every row index of the input is in
\* exactly one bucket, the one of its grouping tuple (NaN rendered as "NaN"
\* forming its own key), bucket sizes sum to n, and rows within a bucket
\* keep their original relative order; with unequal row counts it fails
\* fatally.
C35_Partition ==
    /\ main_pc = "panicked" => NRows(x[1]) # NRows(replicate_wgts[1])
    /\ main_pc = "returned"
       => /\ NRows(x[1]) = NRows(replicate_wgts[1])
          /\ DOMAIN result.matrix = get_keys(replicate_wgts[1])
          /\ DOMAIN result.vector = get_keys(replicate_wgts[1])
          /\ DOMAIN result.matrix
                 = {GroupingTuple(r) : r \in 1..NRows(replicate_wgts[1])}
          /\ \A key \in DOMAIN result.matrix :
                 /\ NRows(result.matrix[key]) = Cardinality(Members(key))
                 /\ Len(result.vector[key]) = Cardinality(Members(key))
                 /\ \A j \in 1..Cardinality(Members(key)) :
                        /\ result.matrix[key].rows[j] = x[1].rows[Member(key, j)]
                        /\ result.vector[key][j] = weights[1][Member(key, j)]
          /\ BucketSizes(result.matrix, DOMAIN result.matrix) = NRows(x[1])

\* three rows were split by a column holding NaN, 1, NaN: the bucket of
\* "NaN" has the first and the third row, in this order
C35_Witness ==
    /\ main_pc = "returned"
    /\ replicate_wgts[1] = Mat(1, <<<<NaN>>, <<R(1)>>, <<NaN>>>>)
    /\ x[1].rows[1] # x[1].rows[3]
    /\ DOMAIN result.matrix = {<<"NaN">>, <<"1">>}
    /\ result.matrix[<<"NaN">>].rows = <<x[1].rows[1], x[1].rows[3]>>
    /\ result.vector[<<"NaN">>] = <<R(1), R(3)>>

\* a call with two rows of data and three of grouping has panicked
C35_WitnessUnequal ==
    /\ main_pc = "panicked"
    /\ NRows(x[1]) = 2 /\ NRows(replicate_wgts[1]) = 3


\* ------------------------------------------------------------------------
\* SpecCounts: a program that pushes values and weights to one
\* OrderedF64Counts.  The counter is held in collector, the pushes made so
\* far in sent_order (history)
\* ------------------------------------------------------------------------

MaxPushes == 3

\* OrderedF64Counts::new
new_counts == [counts |-> <<>>, sum_of_cases |-> 0, sum_of_weights |-> R(0)]

\* BTreeSet::insert of a count whose key is not in the set: its place is
\* behind the counts of smaller key
insert_count(counts, dummy) ==
    LET below == Cardinality({k \in 1..Len(counts) : FLess(counts[k].key, dummy.key)})
    IN  SubSeq(counts, 1, below) \o <<dummy>> \o SubSeq(counts, below + 1, Len(counts))

\* a push that records the weight of the latest occurrence as the first
push_latest_weight(self, key, weight) ==
    IF IsNaN(key) THEN self
    ELSE [counts |->
              IF \E k \in 1..Len(self.counts) : self.counts[k].key = key
              THEN [k \in 1..Len(self.counts) |->
                       IF self.counts[k].key = key
                       THEN [self.counts[k] EXCEPT
                                !.count_cases = @ + 1,
                                !.first_weight = weight,
                                !.count_weighted = FAdd(@, weight)]
                       ELSE self.counts[k]]
              ELSE insert_count(self.counts,
                                [key |-> key, count_cases |-> 1,
                                 first_weight |-> weight, count_weighted |-> weight]),
          sum_of_cases |-> self.sum_of_cases + 1,
          sum_of_weights |-> FAdd(self.sum_of_weights, weight)]

\* OrderedF64Counts::push
push(self, key, weight) ==
    IF IsNaN(key) THEN self
    ELSE [counts |->
              IF \E k \in 1..Len(self.counts) : self.counts[k].key = key
              THEN [k \in 1..Len(self.counts) |->
                       IF self.counts[k].key = key
                       THEN [self.counts[k] EXCEPT
                                !.count_cases = @ + 1,
                                !.count_weighted = FAdd(@, weight)]
                       ELSE self.counts[k]]
              ELSE insert_count(self.counts,
                                [key |-> key, count_cases |-> 1,
                                 first_weight |-> weight, count_weighted |-> weight]),
          sum_of_cases |-> self.sum_of_cases + 1,
          sum_of_weights |-> FAdd(self.sum_of_weights, weight)]

\* OrderedF64Counts::get_counts: the counts in the order of the set
get_counts(self) == self.counts

PushedKeys == {R(1), R(2), <<1, 2>>, NaN}

PushedWeights == {R(1), R(2), NaN}

CountsInit ==
    /\ CopyIdle
    /\ analysis1 = analysis
    /\ returned = NoCall
    /\ ServerIdle
    /\ estimator = "mean" /\ x = <<>> /\ weights = <<>> /\ replicate_wgts = <<>>
    /\ factor = R(1)
    /\ main_pc = "pushing"
    /\ tasks = <<>>
    /\ channel = <<>>
    /\ collector = new_counts
    /\ result = NoEstimates
    /\ evaluated = {}
    /\ sent_order = <<>>

Push ==
    /\ main_pc = "pushing"
    /\ Len(sent_order) < MaxPushes
    /\ \E key \in PushedKeys, weight \in PushedWeights :
           /\ collector' = push(collector, key, weight)
           /\ sent_order' = Append(sent_order, <<key, weight>>)
    /\ UNCHANGED <<copyVars, builderVars, serverVars, engineInputs, main_pc, tasks,
                   channel, result, evaluated>>

CountsNext == Push

SpecCounts == CountsInit /\ [][CountsNext]_vars

\* the pushes of a value, in the order they were made
PushesOf(key) == {i \in 1..Len(sent_order) : sent_order[i][1] = key}

\* the weights pushed with a value, added in the order of the pushes
RECURSIVE WeightPushed(_, _)
WeightPushed(key, n) ==
    IF n = 0 THEN R(0)
    ELSE IF sent_order[n][1] = key
    THEN FAdd(WeightPushed(key, n - 1), sent_order[n][2])
    ELSE WeightPushed(key, n - 1)

\* the cases of the first n counts
RECURSIVE CasesCounted(_, _)
CasesCounted(counts, n) ==
    IF n = 0 THEN 0 ELSE CasesCounted(counts, n - 1) + counts[n].count_cases

\* three pushes of two values, a repeated one with unequal weights and a NaN
C36_Witness ==
    /\ Len(sent_order) = 3
    /\ sent_order[1] = <<R(2), R(1)>>
    /\ sent_order[2] = <<R(1), R(2)>>
    /\ sent_order[3] = <<R(2), R(2)>>
    /\ Len(get_counts(collector)) = 2
    /\ get_counts(collector)[2].count_cases = 2

\* a push of NaN has been made after a push of a number
C36_WitnessNaN ==
    /\ Len(sent_order) = 2
    /\ sent_order[1] = <<R(1), R(2)>>
    /\ sent_order[2] = <<NaN, R(1)>>
    /\ collector.sum_of_cases = 1

\* C36: after any sequence of push(value, weight) calls, get_counts() lists
\* each distinct non-NaN pushed value exactly once in strictly ascending
\* order, with case_count the number of pushes of that value, first_weight
\* the weight of its first push and summed weight the sum of the weights of
\* its pushes; sum_of_cases and sum_of_weights equal the totals over the
\* entries; a push of NaN changes nothing.
C36_OrderedCounts ==
    /\ [](LET counts == get_counts(collector)
          IN  /\ {counts[k].key : k \in 1..Len(counts)}
                     = {sent_order[i][1] : i \in 1..Len(sent_order)} \ {NaN}
              /\ \A k \in 1..(Len(counts) - 1) : FLess(counts[k].key, counts[k + 1].key)
              /\ \A k \in 1..Len(counts) :
                     /\ counts[k].count_cases = Cardinality(PushesOf(counts[k].key))
                     /\ \E i \in PushesOf(counts[k].key) :
                            /\ \A o \in PushesOf(counts[k].key) : i <= o
                            /\ counts[k].first_weight = sent_order[i][2]
                     /\ counts[k].count_weighted
                            = WeightPushed(counts[k].key, Len(sent_order))
              /\ collector.sum_of_cases = CasesCounted(counts, Len(counts))
              /\ collector.sum_of_weights
                     = Sum([k \in 1..Len(counts) |-> counts[k].count_weighted]))
    /\ [][(Len(sent_order') > Len(sent_order) /\ IsNaN(sent_order'[Len(sent_order')][1]))
          => collector' = collector]_vars


\* ------------------------------------------------------------------------
\* SpecCollect: one call of replicate_estimates with the threads of
\* SpecEngine, for the kernels mean and frequencies on imputations of equal
\* shape; every thread that can take a step takes it at some time
\* ------------------------------------------------------------------------

CollectData ==
    {Mat(2, <<<<R(1), R(2)>>, <<R(3), R(6)>>>>),
     Mat(2, <<<<R(1), R(2)>>, <<R(1), R(2)>>>>),
     Mat(2, <<<<R(1), NaN>>, <<R(3), NaN>>>>)}

CollectWeights == {<<R(1), R(1)>>, <<R(1), NaN>>}

CollectRepWeights == {Mat(0, <<<<>>, <<>>>>), Col1(<<R(2), R(1)>>)}

CollectInit ==
    /\ CopyIdle
    /\ analysis1 = analysis
    /\ returned = NoCall
    /\ ServerIdle
    /\ estimator \in {"mean", "frequencies"}
    /\ \E m \in 1..MaxImp : x \in [1..m -> CollectData]
    /\ weights \in {<<wgt>> : wgt \in CollectWeights}
    /\ replicate_wgts \in {<<repwgts>> : repwgts \in CollectRepWeights}
    /\ factor = R(1)
    /\ main_pc = "start"
    /\ tasks = <<>>
    /\ channel = <<>>
    /\ collector = collector_init
    /\ result = NoEstimates
    /\ evaluated = {}
    /\ sent_order = <<>>

\* the steps of the calling thread up to the end of the receive loop
MainStep == EngineAssert \/ EngineSpawn \/ EngineScope \/ EngineReceive

\* the steps of the thread spawned for imputation i
TaskStep(i) ==
    /\ i \in DOMAIN tasks
    /\ (TaskEstimate(i) \/ TaskReplicate(i) \/ TaskSend(i))

\* the thread of imputation i can take a step: it is spawned and has not ended
TaskReady(i) ==
    /\ i \in DOMAIN tasks
    /\ tasks[i].pc \in {"estimate", "replicate", "send"}

\* the calling thread can leave the receive loop: the channel is empty and
\* every sender has been dropped
ReturnReady == main_pc = "receive" /\ channel = <<>>

\* the operating system runs every thread that can run: the calling thread
\* and each task are weakly fair.  For the steps that evaluate the estimator
\* or combine the estimates the fairness is written with the guard of the
\* step, which is the state where it is enabled
SpecCollect ==
    /\ CollectInit
    /\ [][EngineNext]_vars
    /\ WF_vars(MainStep)
    /\ ([]<>(~ReturnReady) \/ []<><<EngineReturn>>_vars)
    /\ \A i \in 1..MaxImp : ([]<>(~TaskReady(i)) \/ []<><<TaskStep(i)>>_vars)

\* no evaluation of the estimator has failed in a task
NoEvaluationFailed == \A i \in DOMAIN tasks : tasks[i].pc # "panicked"

CollectPre ==
    /\ Len(x) >= 1
    /\ length_asserts(x, weights, replicate_wgts)
    /\ NoEvaluationFailed

\* the point evaluations made so far give as many estimates
EqualParameterCounts ==
    \A i, j \in DOMAIN tasks :
        (tasks[i].pc \in {"replicate", "send", "finished"}
             /\ tasks[j].pc \in {"replicate", "send", "finished"})
        => Len(tasks[i].estimates_imputation.estimates)
               = Len(tasks[j].estimates_imputation.estimates)

\* the messages task i has sent
SentBy(i) == Cardinality({k \in 1..Len(sent_order) : sent_order[k] = i})

\* sending and receiving in their order: a task sends once and is finished
\* then, it sends while nothing is received (the channel takes every message
\* without a receiver); the receive loop runs after every task has finished
\* and writes one column per message, inside the matrix
Orderly ==
    /\ \A i \in DOMAIN tasks :
           /\ SentBy(i) = (IF tasks[i].pc = "finished" THEN 1 ELSE 0)
           /\ tasks[i].pc = "send" => (main_pc = "spawn" /\ collector = collector_init)
    /\ (main_pc \in {"receive", "returned"} \/ collector.next_column_estimates > 0)
       => /\ Len(tasks) = Len(x)
          /\ \A i \in DOMAIN tasks : tasks[i].pc = "finished"
    /\ main_pc \in {"receive", "returned"}
       => collector.next_column_estimates + Len(channel) = Len(x)
    /\ collector.next_column_estimates <= Len(x)

\* the call has returned with one column written per imputation
AllCollected ==
    /\ main_pc = "returned"
    /\ channel = <<>>
    /\ collector.next_column_estimates = Len(x)
    /\ ~result.panicked

C37_TerminatesEqualCounts ==
    /\ []((CollectPre /\ EqualParameterCounts) => (Orderly /\ main_pc # "panicked"))
    /\ (Len(x) >= 1 /\ length_asserts(x, weights, replicate_wgts) /\ main_pc = "start")
           ~> (AllCollected \/ ~NoEvaluationFailed \/ ~EqualParameterCounts)

\* a call of two imputations has returned after both messages were written
C37_Witness ==
    /\ Len(x) = 2 /\ AllCollected
    /\ replicate_wgts[1].ncols = 1
    /\ sent_order = <<2, 1>>

\* two tasks have sent their messages and the receive loop has failed on
\* the second
C37_CollectorFailed ==
    /\ CollectPre /\ Len(x) = 2
    /\ \A i \in DOMAIN tasks : tasks[i].pc = "finished"
    /\ main_pc = "panicked"

====
